---- MODULE Spec2Model ----
(***************************************************************************)
(* ADS-B tracker: the SBS-1 line decoder (parse_sbs_line), the per-aircraft*)
(* state aggregator (AircraftStateTracker.update) and the feed supervisors *)
(* (stream_from_dump1090, stream_positions, stream_to_api, CSV logger).    *)
(*                                                                         *)
(* Conventions                                                             *)
(*   - an Optional value is a sequence: None is <<>>, a value x is <<x>>;  *)
(*   - a float is a record [k, m]: k = "fin" with m the value in           *)
(*     thousandths, k = "inf" with m the sign, k = "nan";                  *)
(*   - a text line is the sequence of its comma-separated fields, so       *)
(*     Python's fields[i] is fields[i + 1] here (see Fld).                 *)
(***************************************************************************)
EXTENDS Integers, Sequences, FiniteSets, TLC

VARIABLES
    line,       \* SpecParse: the input line handed to parse_sbs_line
    parsed,     \* SpecParse: what parse_sbs_line did with it
    st,         \* AircraftStateTracker._state: icao -> AircraftState
    fed,        \* history: the ParsedMessages passed to update, in order
    out,        \* what the last decode+update step returned
    lookup_aircraft_info, \* AircraftStateTracker.lookup_aircraft_info is set
    lookups,    \* history: the enrichment lookups made, with their outcomes
    kind,       \* SpecSup: which supervisor runs ("db", "http", "api", "csv");
                \* SpecBus: "nats"
    batch_size, \* SpecSup: the batch_size argument
    pc,         \* SpecSup: "Starting", "Connecting", "Streaming", "Backoff"
                \* or "Exited"
    open_feeds, \* SpecSup: how many feed connections are open
    shutdown_steps, \* history: what the shutdown path did, in order
    exitBy,     \* SpecSup: why the process ended ("" while it runs)
    finalFlush, \* SpecSup: what the shutdown path did with the buffer
    batch,      \* SpecSup: aircraft_rows/position_rows, or the HTTP batch
    record_count, \* SpecSup: record_count (db, csv) / total (http, api)
    last_log,   \* SpecSup: last_log / last_flush_count
    flushed,    \* SpecSup: the batches the sink accepted, in order
    appended,   \* history: every snapshot the supervisor buffered
    published,  \* SpecBus: the messages the NATS client accepted, in order
    snapshots,  \* history: the updates of the read loop that returned a
                \* snapshot, in order
    wall_clock, \* SpecCsv: the clock, in seconds
    current_positions, \* SpecCsv: current_positions of the CSV logger
    current_csv, \* SpecCsv: the rows of the current-positions CSV file
    current_written, \* history: when the file was last written
    last_current_update, \* SpecCsv: last_current_update
    aircraft_table, \* SpecDb: the aircraft table, icao -> row
    positions_table, \* SpecDb: the positions table, in insertion order
    db_last,    \* history: the last database write (its rows, its kind)
    publisher,  \* SpecPub: the NatsPublisher (_connected, _lock)
    nc,         \* SpecPub: the NATS client behind it, with its history
    tasks,      \* SpecPub: where each asyncio task is in its call
    calls,      \* history: how many calls the tasks have made
    nread,      \* history: how many feed lines were read
    delay       \* SpecSup: seconds left of time.sleep(RECONNECT_DELAY)

trackerVars == <<line, parsed, st, fed, out, lookup_aircraft_info, lookups>>

supVars ==
    <<kind, batch_size, pc, open_feeds, shutdown_steps, exitBy, finalFlush,
      batch, record_count, last_log, flushed, appended, published, snapshots,
      wall_clock, current_positions, current_csv, current_written,
      last_current_update, aircraft_table, positions_table, db_last,
      publisher, nc, tasks, calls, nread, delay>>

csvVars ==
    <<current_positions, current_csv, current_written, last_current_update>>

dbVars == <<aircraft_table, positions_table, db_last>>

natsVars == <<publisher, nc, tasks, calls>>

vars == <<trackerVars, supVars>>

None == <<>>

\* No database write was made yet.
NoWrite == [calls |-> 0, by |-> "", rows |-> <<>>, db_up |-> TRUE]

\* The asyncio tasks that share one publisher, and a task outside a call.
Tasks == {"t1", "t2", "t3"}
Idle == [at |-> "idle", then |-> ""]

\* NatsPublisher.__init__: _connected = False, _lock = asyncio.Lock().
NewPublisher ==
    [_connected |-> FALSE, _lock |-> [holder |-> <<>>, _waiters |-> <<>>]]

\* NATS(): the client, with the history of what was asked of it since
\* construction or the last completed close.
NewClient ==
    [status |-> "new", connect_calls |-> 0, connecting |-> 0,
     connected |-> 0, closes |-> 0, handed |-> <<>>]
Some(x) == <<x>>

(***************************************************************************)
(* Python text and number conversions on the field vocabulary.             *)
(***************************************************************************)

\* str.lstrip() / str.rstrip() / str.strip(): the text without leading /
\* trailing / surrounding whitespace.
LStrip(s) ==
    CASE s = " "     -> ""
      [] s = " 1"    -> "1"
      [] s = " 1 "   -> "1 "
      [] s = " MSG"  -> "MSG"
      [] s = " MSG " -> "MSG "
      [] OTHER       -> s

RStrip(s) ==
    CASE s = " "     -> ""
      [] s = "1 "    -> "1"
      [] s = " 1 "   -> " 1"
      [] s = "MSG "  -> "MSG"
      [] s = " MSG " -> " MSG"
      [] OTHER       -> s

Strip(s) == LStrip(RStrip(s))

\* str.upper().
Upper(s) ==
    CASE s = "3c5ef2" -> "3C5EF2"
      [] s = "x"      -> "X"
      [] s = "inf"    -> "INF"
      [] s = "nan"    -> "NAN"
      [] OTHER        -> s

Fin(m) == [k |-> "fin", m |-> m]
PosInf == [k |-> "inf", m |-> 1]
NaN == [k |-> "nan", m |-> 0]

\* float(str): None stands for ValueError; whitespace around the number is
\* accepted; "inf" and "nan" are valid float literals.
PyFloat(s) ==
    LET t == Strip(s) IN
    CASE t = "0"      -> Some(Fin(0))
      [] t = "1"      -> Some(Fin(1000))
      [] t = "3"      -> Some(Fin(3000))
      [] t = "4"      -> Some(Fin(4000))
      [] t = "158"    -> Some(Fin(158000))
      [] t = "160"    -> Some(Fin(160000))
      [] t = "376"    -> Some(Fin(376000))
      [] t = "380"    -> Some(Fin(380000))
      [] t = "7700"   -> Some(Fin(7700000))
      [] t = "38000"  -> Some(Fin(38000000))
      [] t = "45.630" -> Some(Fin(45630))
      [] t = "8.936"  -> Some(Fin(8936))
      [] t = "95.0"   -> Some(Fin(95000))
      [] t = "181.5"  -> Some(Fin(181500))
      [] t = "-3.5"   -> Some(Fin(-3500))
      [] t = "-640"   -> Some(Fin(-640000))
      [] t = "inf"    -> Some(PosInf)
      [] t = "nan"    -> Some(NaN)
      [] OTHER        -> None

\* int(str): None stands for ValueError; only integer literals are accepted
\* ("45.630", "inf" and "nan" are not).
IntLiterals ==
    {"0", "1", "3", "4", "158", "160", "376", "380", "7700", "38000", "-640"}

PyInt(s) ==
    IF Strip(s) \in IntLiterals THEN Some(PyFloat(s)[1].m \div 1000) ELSE None

\* int(float): truncation toward zero; ValueError for nan, OverflowError for
\* an infinity.
Trunc(m) == IF m >= 0 THEN m \div 1000 ELSE -((-m) \div 1000)

IntOfFloat(f) ==
    CASE f.k = "fin" -> [tag |-> "ok", v |-> Trunc(f.m)]
      [] f.k = "nan" -> [tag |-> "ValueError", v |-> 0]
      [] f.k = "inf" -> [tag |-> "OverflowError", v |-> 0]

\* a <= f <= b on floats (a, b given in whole units): false for nan.
InRange(f, a, b) ==
    CASE f.k = "fin" -> a * 1000 <= f.m /\ f.m <= b * 1000
      [] f.k = "inf" -> FALSE
      [] f.k = "nan" -> FALSE

(***************************************************************************)
(* parse_sbs_line                                                          *)
(***************************************************************************)

\* Python's fields[i] (0-indexed).
Fld(fields, i) == fields[i + 1]

\* line.strip() followed by split(","): the outer whitespace of the line is
\* the leading whitespace of its first field and the trailing whitespace of
\* its last field.
RawLine(l) ==
    [i \in 1..Len(l) |->
        IF Len(l) = 1 THEN Strip(l[i])
        ELSE IF i = 1 THEN LStrip(l[i])
        ELSE IF i = Len(l) THEN RStrip(l[i])
        ELSE l[i]]

\* "if not raw_line": the stripped line is the empty string.
RawEmpty(l) == Len(l) = 1 /\ Strip(l[1]) = ""

\* _parse_flag
_parse_flag(value) ==
    LET v == Strip(value) IN
    IF v = "1" THEN Some(TRUE) ELSE IF v = "0" THEN Some(FALSE) ELSE None

\* "if len(fields) > i and fields[i].strip()"
Present(fields, i) == Len(fields) > i /\ Strip(Fld(fields, i)) # ""

\* fields[i].strip() when present, for callsign and squawk.
TextField(fields, i) ==
    IF Present(fields, i) THEN Some(Strip(Fld(fields, i))) ELSE None

\* try: x = float(fields[i]) except ValueError: pass
FloatField_next(fields, i) ==
    IF Present(fields, i + 1) THEN PyFloat(Fld(fields, i + 1)) ELSE None

FloatField(fields, i) ==
    IF Present(fields, i) THEN PyFloat(Fld(fields, i)) ELSE None

\* try: x = int(float(fields[i])) except ValueError: pass
\* tag "ok" with the Optional value v, or the exception that escapes.
IntFloatField(fields, i) ==
    IF ~Present(fields, i) \/ PyFloat(Fld(fields, i)) = None
    THEN [tag |-> "ok", v |-> None]
    ELSE LET r == IntOfFloat(PyFloat(Fld(fields, i))[1]) IN
         CASE r.tag = "ok"            -> [tag |-> "ok", v |-> Some(r.v)]
           [] r.tag = "ValueError"    -> [tag |-> "ok", v |-> None]
           [] r.tag = "OverflowError" -> [tag |-> "OverflowError", v |-> None]

\* transmission_type: int(fields[1]) when field 1 is non-blank.
TransmissionType(fields) ==
    IF Present(fields, 1) THEN PyInt(Fld(fields, 1)) ELSE None

\* The position pair: set together or not at all.
Position_per_coordinate(fields) ==
    IF Len(fields) > 15
    THEN LET lat_str == Strip(Fld(fields, 14))
             lon_str == Strip(Fld(fields, 15))
             lat_ok == lat_str # "" /\ PyFloat(lat_str) # None
                       /\ InRange(PyFloat(lat_str)[1], -90, 90)
             lon_ok == lon_str # "" /\ PyFloat(lon_str) # None
                       /\ InRange(PyFloat(lon_str)[1], -180, 180)
         IN  [lat |-> IF lat_ok THEN PyFloat(lat_str) ELSE None,
              lon |-> IF lon_ok THEN PyFloat(lon_str) ELSE None,
              has |-> lat_ok /\ lon_ok]
    ELSE [lat |-> None, lon |-> None, has |-> FALSE]

Position(fields) ==
    IF Len(fields) > 15
    THEN LET lat_str == Strip(Fld(fields, 14))
             lon_str == Strip(Fld(fields, 15))
         IN  IF lat_str # "" /\ lon_str # ""
                /\ PyFloat(lat_str) # None /\ PyFloat(lon_str) # None
                /\ InRange(PyFloat(lat_str)[1], -90, 90)
                /\ InRange(PyFloat(lon_str)[1], -180, 180)
             THEN [lat |-> PyFloat(lat_str), lon |-> PyFloat(lon_str), has |-> TRUE]
             ELSE [lat |-> None, lon |-> None, has |-> FALSE]
    ELSE [lat |-> None, lon |-> None, has |-> FALSE]

\* if ...: parsed.alert = _parse_flag(fields[18]), with False in place of
\* None.
FlagField_false_by_default(fields, i) ==
    IF Present(fields, i) /\ _parse_flag(Fld(fields, i)) = Some(TRUE)
    THEN Some(TRUE) ELSE Some(FALSE)

FlagField(fields, i) ==
    IF Present(fields, i) THEN _parse_flag(Fld(fields, i)) ELSE None

ResNone == [tag |-> "None"]
ResRaise(e) == [tag |-> "Raise", exc |-> e]
ResMsg(m) == [tag |-> "Msg", msg |-> m]

\* The result of parse_sbs_line(line): None, a ParsedMessage, or the
\* exception it lets escape.
parse_sbs_line_any_type(l) ==
    LET fields == RawLine(l) IN
    IF RawEmpty(l) THEN ResNone
    ELSE IF Len(fields) < 5 THEN ResNone
    ELSE IF Upper(Strip(Fld(fields, 4))) = "" THEN ResNone
    ELSE LET alt == IntFloatField(fields, 11)
             vr  == IntFloatField(fields, 16)
             pos == Position(fields)
         IN  IF alt.tag # "ok" THEN ResRaise(alt.tag)
             ELSE IF vr.tag # "ok" THEN ResRaise(vr.tag)
             ELSE ResMsg([
                 raw               |-> fields,
                 message_type      |-> Strip(Fld(fields, 0)),
                 transmission_type |-> TransmissionType(fields),
                 icao              |-> Upper(Strip(Fld(fields, 4))),
                 callsign          |-> TextField(fields, 10),
                 lat               |-> pos.lat,
                 lon               |-> pos.lon,
                 altitude_ft       |-> alt.v,
                 ground_speed_kts  |-> FloatField(fields, 12),
                 track_deg         |-> FloatField(fields, 13),
                 vertical_rate_fpm |-> vr.v,
                 squawk            |-> TextField(fields, 17),
                 alert             |-> FlagField(fields, 18),
                 emergency         |-> FlagField(fields, 19),
                 spi               |-> FlagField(fields, 20),
                 on_ground         |-> FlagField(fields, 21),
                 has_position      |-> pos.has])

parse_sbs_line(l) ==
    LET fields == RawLine(l) IN
    IF RawEmpty(l) THEN ResNone
    ELSE IF Len(fields) < 5 THEN ResNone
    ELSE IF Strip(Fld(fields, 0)) # "MSG" THEN ResNone
    ELSE IF Upper(Strip(Fld(fields, 4))) = "" THEN ResNone
    ELSE LET alt == IntFloatField(fields, 11)
             vr  == IntFloatField(fields, 16)
             pos == Position(fields)
         IN  IF alt.tag # "ok" THEN ResRaise(alt.tag)
             ELSE IF vr.tag # "ok" THEN ResRaise(vr.tag)
             ELSE ResMsg([
                 raw               |-> fields,
                 message_type      |-> Strip(Fld(fields, 0)),
                 transmission_type |-> TransmissionType(fields),
                 icao              |-> Upper(Strip(Fld(fields, 4))),
                 callsign          |-> TextField(fields, 10),
                 lat               |-> pos.lat,
                 lon               |-> pos.lon,
                 altitude_ft       |-> alt.v,
                 ground_speed_kts  |-> FloatField(fields, 12),
                 track_deg         |-> FloatField(fields, 13),
                 vertical_rate_fpm |-> vr.v,
                 squawk            |-> TextField(fields, 17),
                 alert             |-> FlagField(fields, 18),
                 emergency         |-> FlagField(fields, 19),
                 spi               |-> FlagField(fields, 20),
                 on_ground         |-> FlagField(fields, 21),
                 has_position      |-> pos.has])

(***************************************************************************)
(* AircraftState and AircraftStateTracker                                  *)
(***************************************************************************)

\* AircraftState(icao=icao): every field at its dataclass default.
AircraftState(icao) ==
    [icao |-> icao, flight |-> "",
     registration |-> None, icao_type |-> None, model |-> None,
     is_military |-> None, is_interesting |-> None, is_pia |-> None,
     is_ladd |-> None,
     lat |-> None, lon |-> None, altitude_ft |-> None, speed_kts |-> None,
     heading_deg |-> None, vertical_rate_fpm |-> None, squawk |-> None,
     alert |-> None, emergency |-> None, spi |-> None, on_ground |-> None,
     last_update |-> None]

\* AircraftState.as_position
as_position_either(state) ==
    IF state.lat = None /\ state.lon = None
    THEN None
    ELSE Some([icao |-> state.icao, flight |-> state.flight,
               lat |-> state.lat, lon |-> state.lon,
               altitude_ft |-> state.altitude_ft,
               speed_kts |-> state.speed_kts,
               heading_deg |-> state.heading_deg,
               vertical_rate_fpm |-> state.vertical_rate_fpm,
               squawk |-> state.squawk, alert |-> state.alert,
               emergency |-> state.emergency, spi |-> state.spi,
               on_ground |-> state.on_ground])

as_position(state) ==
    IF state.lat = None \/ state.lon = None
    THEN None
    ELSE Some([icao |-> state.icao, flight |-> state.flight,
               lat |-> state.lat, lon |-> state.lon,
               altitude_ft |-> state.altitude_ft,
               speed_kts |-> state.speed_kts,
               heading_deg |-> state.heading_deg,
               vertical_rate_fpm |-> state.vertical_rate_fpm,
               squawk |-> state.squawk, alert |-> state.alert,
               emergency |-> state.emergency, spi |-> state.spi,
               on_ground |-> state.on_ground])

\* "if msg.x is not None: state.x = msg.x"
IfNotNone_clears(new, old) == new

IfNotNone(new, old) == IF new # None THEN new ELSE old

\* "if msg.x: state.x = msg.x" on an Optional[str]: None and "" are falsy.
Truthy(optstr) == optstr # None /\ optstr[1] # ""

\* The field assignments of update (the merge of one message into a state).
Merge_lon_overwritten(state, msg, now) ==
    [state EXCEPT
        !.flight            = IF Truthy(msg.callsign) THEN msg.callsign[1] ELSE @,
        !.lat               = IfNotNone(msg.lat, @),
        !.lon               = msg.lon,
        !.altitude_ft       = IfNotNone(msg.altitude_ft, @),
        !.speed_kts         = IfNotNone(msg.ground_speed_kts, @),
        !.heading_deg       = IfNotNone(msg.track_deg, @),
        !.vertical_rate_fpm = IfNotNone(msg.vertical_rate_fpm, @),
        !.squawk            = IF Truthy(msg.squawk) THEN msg.squawk ELSE @,
        !.alert             = IfNotNone(msg.alert, @),
        !.emergency         = IfNotNone(msg.emergency, @),
        !.spi               = IfNotNone(msg.spi, @),
        !.on_ground         = IfNotNone(msg.on_ground, @),
        !.last_update       = Some(now)]

Merge(state, msg, now) ==
    [state EXCEPT
        !.flight            = IF Truthy(msg.callsign) THEN msg.callsign[1] ELSE @,
        !.lat               = IfNotNone(msg.lat, @),
        !.lon               = IfNotNone(msg.lon, @),
        !.altitude_ft       = IfNotNone(msg.altitude_ft, @),
        !.speed_kts         = IfNotNone(msg.ground_speed_kts, @),
        !.heading_deg       = IfNotNone(msg.track_deg, @),
        !.vertical_rate_fpm = IfNotNone(msg.vertical_rate_fpm, @),
        !.squawk            = IF Truthy(msg.squawk) THEN msg.squawk ELSE @,
        !.alert             = IfNotNone(msg.alert, @),
        !.emergency         = IfNotNone(msg.emergency, @),
        !.spi               = IfNotNone(msg.spi, @),
        !.on_ground         = IfNotNone(msg.on_ground, @),
        !.last_update       = Some(now)]

\* What self.lookup_aircraft_info(icao) does: it raises, or it returns None,
\* an empty dict or an entry of the aircraft database.
LookupRaises == [tag |-> "raise"]
LookupReturns(info) == [tag |-> "return", info |-> info]
NotCalled == [tag |-> "not called"]

InfoEntry ==
    [registration |-> "D-AEWG", type |-> "A320", model |-> "",
     is_military |-> FALSE, is_interesting |-> TRUE, is_pia |-> FALSE,
     is_ladd |-> FALSE]

LookupOutcomes ==
    {LookupRaises, LookupReturns(None), LookupReturns(Some(<<>>)),
     LookupReturns(Some(InfoEntry))}

\* info.get(key)
DictGet(info, key) == IF key \in DOMAIN info THEN Some(info[key]) ELSE None

\* "info.get(key) or state.attr" on text.
GetOr(info, key, old) ==
    IF DictGet(info, key) # None /\ DictGet(info, key)[1] # ""
    THEN DictGet(info, key) ELSE old

\* "value = info.get(attr); if value is not None: setattr(state, attr,
\*  bool(value))"
GetFlag(info, key, old) ==
    IF DictGet(info, key) # None THEN DictGet(info, key) ELSE old

\* _apply_aircraft_info: the state after it and whether the lookup was
\* called. lookup is "self.lookup_aircraft_info is set"; outcome is what
\* the call does.
_apply_aircraft_info(state, lookup, outcome) ==
    IF ~lookup THEN [state |-> state, called |-> FALSE]
    ELSE IF outcome.tag # "return" THEN [state |-> state, called |-> TRUE]
    ELSE IF outcome.info = None \/ DOMAIN outcome.info[1] = {}
    THEN [state |-> state, called |-> TRUE]
    ELSE LET info == outcome.info[1] IN
         [called |-> TRUE,
          state  |-> [state EXCEPT
              !.registration   = GetOr(info, "registration", @),
              !.icao_type      = GetOr(info, "type", @),
              !.model          = GetOr(info, "model", @),
              !.is_pia         = GetFlag(info, "is_pia", @),
              !.is_ladd        = GetFlag(info, "is_ladd", @),
              !.is_military    = GetFlag(info, "is_military", @),
              !.is_interesting = GetFlag(info, "is_interesting", @)]]

\* "state = self._state.get(msg.icao); if state is None: state =
\*  AircraftState(icao=msg.icao); self._apply_aircraft_info(state)": the
\* tracked state, created and enriched on the first message.
GetOrCreate_looks_up_always(states, icao, lookup, outcome) ==
    _apply_aircraft_info(
        IF icao \in DOMAIN states THEN states[icao] ELSE AircraftState(icao),
        lookup, outcome)

GetOrCreate(states, icao, lookup, outcome) ==
    IF icao \in DOMAIN states
    THEN [state |-> states[icao], called |-> FALSE]
    ELSE _apply_aircraft_info(AircraftState(icao), lookup, outcome)

\* The lookups one update makes, with what they did.
Calls(got, icao, outcome) ==
    IF got.called THEN <<[icao |-> icao, outcome |-> outcome]>> ELSE <<>>

\* "has_full_velocity = position is not None and state.speed_kts is not None
\*  and state.heading_deg is not None"
HasFullVelocity_speed_only(state) ==
    as_position(state) # None /\ state.speed_kts # None

HasFullVelocity(state) ==
    as_position(state) # None /\ state.speed_kts # None
    /\ state.heading_deg # None

\* AircraftStateTracker.update: the new _state, the lookups made, the
\* returned position dict and the returned has_full_velocity.
update_from_message(states, msg, now, lookup, outcome) ==
    LET got == GetOrCreate(states, msg.icao, lookup, outcome)
        state == Merge(got.state, msg, now)
    IN
    [states   |-> [i \in DOMAIN states \cup {msg.icao} |->
                      IF i = msg.icao THEN state ELSE states[i]],
     lookups  |-> Calls(got, msg.icao, outcome),
     position |-> IF msg.lat = None \/ msg.lon = None
                  THEN None ELSE as_position(state),
     has_full |-> msg.lat # None /\ msg.lon # None
                  /\ msg.ground_speed_kts # None /\ msg.track_deg # None]

update(states, msg, now, lookup, outcome) ==
    LET got == GetOrCreate(states, msg.icao, lookup, outcome)
        state == Merge(got.state, msg, now)
    IN
    [states   |-> [i \in DOMAIN states \cup {msg.icao} |->
                      IF i = msg.icao THEN state ELSE states[i]],
     lookups  |-> Calls(got, msg.icao, outcome),
     position |-> as_position(state),
     has_full |-> HasFullVelocity(state)]

(***************************************************************************)
(* build_adsb_position_event                                               *)
(***************************************************************************)

EVENT_TYPE == "adsb.position.v1"

\* os.getenv("ADSB_SOURCE_ID", "UNKNOWN_SOURCE")
SOURCE_ID == "UNKNOWN_SOURCE"

\* The keys of the event whose values are booleans.
BooleanKeys ==
    {"isMilitary", "isInteresting", "isPIA", "isLADD", "alert", "emergency",
     "spi", "onGround"}

\* {k: v for k, v in values.items() if v}: false flags are dropped as well.
_drop_falsy(values) ==
    [k \in {x \in DOMAIN values :
               /\ values[x] # None
               /\ x \in BooleanKeys => values[x] # Some(FALSE)}
        |-> values[k][1]]

\* _drop_none: the dict without the keys whose value is None; the values
\* that stay (False and 0 among them) are kept as they are.
_drop_none(values) ==
    [k \in {x \in DOMAIN values : values[x] # None} |-> values[k][1]]

\* "state.flight or None"
OrNone(text) == IF text = "" THEN None ELSE Some(text)

ResEvent(ev) == [tag |-> "Event", event |-> ev]

\* The blocks of the event, from the state and the optional arguments.
aircraft_block(state) ==
    _drop_none([icaoHex       |-> Some(state.icao),
                callsign      |-> OrNone(state.flight),
                registration  |-> state.registration,
                icaoType      |-> state.icao_type,
                model         |-> state.model,
                isMilitary    |-> state.is_military,
                isInteresting |-> state.is_interesting,
                isPIA         |-> state.is_pia,
                isLADD        |-> state.is_ladd])

position_block(state) ==
    _drop_none([lat             |-> state.lat,
                lon             |-> state.lon,
                altitudeFt      |-> state.altitude_ft,
                groundSpeedKts  |-> state.speed_kts,
                trackDeg        |-> state.heading_deg,
                verticalRateFpm |-> state.vertical_rate_fpm])

codes_block(state) ==
    _drop_none([squawk    |-> state.squawk,
                alert     |-> state.alert,
                emergency |-> state.emergency,
                spi       |-> state.spi,
                onGround  |-> state.on_ground])

raw_block(raw_sbs, message_type, transmission_type) ==
    _drop_none([sbs              |-> raw_sbs,
                messageType      |-> message_type,
                transmissionType |-> transmission_type])

\* build_adsb_position_event(state, source, raw_sbs, message_type,
\* transmission_type, timestamp_ms), called when time.time() * 1000 is
\* clock_ms: the event, or the ValueError it raises.
build_adsb_position_event_defaults(state, source, raw_sbs, message_type, transmission_type, timestamp_ms, clock_ms) ==
    LET located == [state EXCEPT
                       !.lat = IF @ = None THEN Some(Fin(0)) ELSE @,
                       !.lon = IF @ = None THEN Some(Fin(0)) ELSE @]
    IN  ResEvent([eventType |-> EVENT_TYPE,
                  source    |-> source,
                  tsUnixMs  |-> IF timestamp_ms # None THEN timestamp_ms[1]
                                ELSE clock_ms,
                  aircraft  |-> aircraft_block(located),
                  position  |-> position_block(located),
                  codes     |-> codes_block(located),
                  raw       |-> raw_block(raw_sbs, message_type,
                                          transmission_type)])

build_adsb_position_event(state, source, raw_sbs, message_type, transmission_type, timestamp_ms, clock_ms) ==
    IF state.lat = None \/ state.lon = None
    THEN ResRaise("ValueError")
    ELSE ResEvent([eventType |-> EVENT_TYPE,
                   source    |-> source,
                   tsUnixMs  |-> IF timestamp_ms # None THEN timestamp_ms[1]
                                 ELSE clock_ms,
                   aircraft  |-> aircraft_block(state),
                   position  |-> position_block(state),
                   codes     |-> codes_block(state),
                   raw       |-> raw_block(raw_sbs, message_type,
                                           transmission_type)])

(***************************************************************************)
(* Inputs                                                                  *)
(***************************************************************************)

\* The two lines of the end-to-end scenario.
Line1 ==
    <<"MSG", "3", "1", "1", "3C5EF2", "1", "D", "T", "D", "T", "EWG4TV",
      "38000", "376", "158", "45.630", "8.936", "", "", "0", "0", "0", "0">>

Line2 ==
    <<"MSG", "4", "1", "1", "3C5EF2", "1", "D", "T", "D", "T", "EWG4TV",
      "38000", "380", "160", "", "", "", "", "", "", "", "">>

\* A line with every optional field filled in.
LineFull ==
    <<"MSG", "3", "1", "1", "3C5EF2", "1", "D", "T", "D", "T", "EWG4TV",
      "38000", "376", "158", "45.630", "8.936", "-640", "7700", "0", "1", "0",
      "1">>

\* test_parse_sbs_line_ignores_non_msg
LineSel == <<"SEL", "foo", "bar">>
LineEmpty == <<"">>

\* l with Python's fields[i] replaced by the text t.
Subst(l, i, t) == [l EXCEPT ![i + 1] = t]

\* Field texts tried in every position of a line.
Tokens ==
    {"", " ", "x", "inf", "nan", "95.0", "181.5", "-3.5", "0", "1", " 1 ",
     "3c5ef2", "7700", " MSG ", "SEL"}

\* The lines parse_sbs_line is applied to: the scenario lines and the full
\* line, each of them with one field replaced, every prefix of a scenario
\* line, and the non-MSG / blank lines.
Lines ==
    {Line1, Line2, LineFull, LineSel, LineEmpty, <<" ">>}
    \cup {Subst(Line1, i, t) : i \in 0..21, t \in Tokens}
    \cup {Subst(Line2, i, t) : i \in 0..21, t \in Tokens}
    \cup {Subst(LineFull, i, t) : i \in 0..21, t \in Tokens}
    \cup {SubSeq(Line1, 1, n) : n \in 1..22}
    \cup {Subst(Subst(Line1, 14, a), 15, b) :
            a \in {"95.0", "-3.5", "nan"}, b \in {"181.5", "-3.5", "inf"}}

\* ParsedMessage(raw=..., message_type="MSG", transmission_type=None,
\* icao=...): the optional fields at their defaults.
ParsedMessage(raw, icao) ==
    [raw |-> raw, message_type |-> "MSG", transmission_type |-> None,
     icao |-> icao, callsign |-> None, lat |-> None, lon |-> None,
     altitude_ft |-> None, ground_speed_kts |-> None, track_deg |-> None,
     vertical_rate_fpm |-> None, squawk |-> None, alert |-> None,
     emergency |-> None, spi |-> None, on_ground |-> None,
     has_position |-> FALSE]

\* test_tracker_merges_partial_messages: position without velocity ...
MsgPos ==
    [ParsedMessage(<<"MSG", "3", "", "", "">>, "ABC123") EXCEPT
        !.callsign = Some("TEST123"), !.lat = Some(Fin(40000)),
        !.lon = Some(Fin(-3000)), !.altitude_ft = Some(10000),
        !.has_position = TRUE]

\* ... and the velocity update without lat/lon.
MsgVel ==
    [ParsedMessage(<<"MSG", "4", "", "", "">>, "ABC123") EXCEPT
        !.ground_speed_kts = Some(Fin(250000)), !.track_deg = Some(Fin(90000))]

\* Messages built directly (as the test builds them) that exercise empty
\* strings, false flags, zero values and a latitude without a longitude.
MsgEmptyText ==
    [ParsedMessage(<<"MSG", "1", "", "", "">>, "ABC123") EXCEPT
        !.callsign = Some(""), !.squawk = Some("")]

MsgCodes ==
    [ParsedMessage(<<"MSG", "6", "", "", "">>, "ABC123") EXCEPT
        !.squawk = Some("7700"), !.alert = Some(TRUE),
        !.emergency = Some(FALSE), !.spi = Some(FALSE),
        !.on_ground = Some(FALSE), !.altitude_ft = Some(0),
        !.vertical_rate_fpm = Some(-640)]

MsgLatOnly ==
    [ParsedMessage(<<"MSG", "2", "", "", "">>, "ABC123") EXCEPT
        !.lat = Some(Fin(45000))]

MsgPos2 ==
    [ParsedMessage(<<"MSG", "3", "", "", "">>, "ABC123") EXCEPT
        !.callsign = Some("TEST456"), !.lat = Some(Fin(41000)),
        !.lon = Some(Fin(-4000)), !.ground_speed_kts = Some(Fin(0)),
        !.squawk = Some("1200"), !.alert = Some(FALSE),
        !.on_ground = Some(TRUE), !.has_position = TRUE]

DirectMsgs == {MsgPos, MsgVel, MsgEmptyText, MsgCodes, MsgLatOnly, MsgPos2}

\* The lines fed through decoder and aggregator: the scenario lines, the
\* same aircraft in lower case, a second aircraft, a latitude out of range,
\* a latitude without a longitude, a non-MSG line and an altitude "inf".
FeedLines ==
    {Line1, Line2, Subst(Line1, 4, "3c5ef2"), LineSel, Subst(Line1, 11, "inf"),
     Subst(Line1, 4, "4CA2B1"), Subst(Line2, 4, "4CA2B1"),
     Subst(Line1, 14, "95.0"), Subst(Line1, 15, "")}

\* How many messages one behaviour merges.
MaxFeed == 3

(***************************************************************************)
(* Spec: one tracker fed with lines and with messages                      *)
(***************************************************************************)

Pending == [tag |-> "Pending"]

\* No supervisor runs in Spec and SpecParse.
NoSupervisor ==
    /\ kind = "none"
    /\ batch_size = 0
    /\ pc = "Exited"
    /\ open_feeds = 0
    /\ shutdown_steps = <<>>
    /\ exitBy = ""
    /\ finalFlush = ""
    /\ batch = <<>>
    /\ record_count = 0
    /\ last_log = 0
    /\ flushed = <<>>
    /\ appended = {}
    /\ published = <<>>
    /\ snapshots = <<>>
    /\ wall_clock = 0
    /\ current_positions = <<>>
    /\ current_csv = <<>>
    /\ current_written = None
    /\ last_current_update = 0
    /\ aircraft_table = <<>>
    /\ positions_table = <<>>
    /\ db_last = NoWrite
    /\ publisher = NewPublisher
    /\ nc = NewClient
    /\ tasks = [t \in Tasks |-> Idle]
    /\ calls = 0
    /\ nread = 0
    /\ delay = 0

\* What the lookup can do in an update of the tracker: it is called only
\* when the tracker has a lookup and the aircraft is new.
OutcomesFor(icao) ==
    IF lookup_aircraft_info /\ icao \notin DOMAIN st
    THEN LookupOutcomes ELSE {NotCalled}

\* tracker = AircraftStateTracker()
Init ==
    /\ line = LineEmpty
    /\ parsed = Pending
    /\ st = <<>>
    /\ fed = <<>>
    /\ out = Pending
    /\ lookup_aircraft_info = FALSE
    /\ lookups = <<>>
    /\ NoSupervisor

\* int(time.time() * 1000) after n messages.
ClockMs(n) == 1000 * (n + 1)

\* The result of one tracker.update(msg) call, as the caller sees it.
Updated(r) == [tag |-> "Upd", position |-> r.position, has_full |-> r.has_full]

\* tracker.update(msg) on a message built by the caller.
UpdateDirect(msg, outcome) ==
    /\ Len(fed) < MaxFeed
    /\ outcome \in OutcomesFor(msg.icao)
    /\ LET r == update(st, msg, Len(fed) + 1, lookup_aircraft_info, outcome) IN
        /\ st' = r.states
        /\ lookups' = lookups \o r.lookups
        /\ out' = Updated(r)
    /\ fed' = Append(fed, msg)
    /\ UNCHANGED <<line, parsed, lookup_aircraft_info, supVars>>

\* "parsed = parse_sbs_line(line); if not parsed: continue;
\*  position, has_full = tracker.update(parsed)"
FeedLine(l, outcome) ==
    /\ Len(fed) < MaxFeed
    /\ LET p == parse_sbs_line(l) IN
        IF p.tag = "Msg"
        THEN LET r == update(st, p.msg, Len(fed) + 1, lookup_aircraft_info,
                            outcome)
             IN
              /\ outcome \in OutcomesFor(p.msg.icao)
              /\ st' = r.states
              /\ lookups' = lookups \o r.lookups
              /\ out' = Updated(r)
              /\ fed' = Append(fed, p.msg)
        ELSE /\ outcome = NotCalled
             /\ out' = p
             /\ UNCHANGED <<st, fed, lookups>>
    /\ UNCHANGED <<line, parsed, lookup_aircraft_info, supVars>>

\* "state = tracker.get_state(parsed.icao); event =
\*  build_adsb_position_event(state, source=SOURCE_ID, raw_sbs=parsed.raw,
\*  message_type=..., transmission_type=..., [timestamp_ms=...])" for the
\* message that was just merged.
BuildEvent(timestamp_ms) ==
    /\ out.tag = "Upd"
    /\ LET msg == fed[Len(fed)] IN
        out' = [tag    |-> "Built",
                icao   |-> msg.icao,
                timestamp_ms |-> timestamp_ms,
                result |-> build_adsb_position_event(
                               st[msg.icao], SOURCE_ID, Some(msg.raw),
                               Some(msg.message_type), msg.transmission_type,
                               timestamp_ms, ClockMs(Len(fed)))]
    /\ UNCHANGED <<line, parsed, st, fed, lookup_aircraft_info, lookups,
                   supVars>>

Next ==
    \/ \E m \in DirectMsgs, o \in LookupOutcomes \cup {NotCalled} :
          UpdateDirect(m, o)
    \/ \E l \in FeedLines, o \in LookupOutcomes \cup {NotCalled} :
          FeedLine(l, o)
    \/ \E ts \in {None, Some(0)} : BuildEvent(ts)

Spec == Init /\ [][Next]_vars

(***************************************************************************)
(* SpecEnrich: a tracker with an enrichment lookup, fed with lines         *)
(***************************************************************************)

\* A position line without callsign and with altitude 0.
LineZero == Subst(Subst(Line1, 10, ""), 11, "0")

\* The feed: one aircraft in upper and in lower case, a second aircraft, a
\* line that is not decodable and the line without callsign.
EnrichLines ==
    {Line1, Line2, Subst(Line1, 4, "3c5ef2"), Subst(Line2, 4, "4CA2B1"),
     Subst(Line1, 4, "4CA2B1"), LineSel, LineZero}

\* tracker = AircraftStateTracker(lookup_aircraft_info=AircraftDatabase().lookup)
InitEnrich ==
    /\ line = LineEmpty
    /\ parsed = Pending
    /\ st = <<>>
    /\ fed = <<>>
    /\ out = Pending
    /\ lookup_aircraft_info = TRUE
    /\ lookups = <<>>
    /\ NoSupervisor

NextEnrich ==
    \/ \E l \in EnrichLines, o \in LookupOutcomes \cup {NotCalled} :
          FeedLine(l, o)
    \/ \E ts \in {None, Some(0)} : BuildEvent(ts)

SpecEnrich == InitEnrich /\ [][NextEnrich]_vars

(***************************************************************************)
(* SpecParse: parse_sbs_line applied to every line of Lines                *)
(***************************************************************************)

InitParse ==
    /\ line \in Lines
    /\ parsed = Pending
    /\ st = <<>>
    /\ fed = <<>>
    /\ out = Pending
    /\ lookup_aircraft_info = FALSE
    /\ lookups = <<>>
    /\ NoSupervisor

Parse ==
    /\ parsed = Pending
    /\ parsed' = parse_sbs_line(line)
    /\ UNCHANGED <<line, st, fed, out, lookup_aircraft_info, lookups, supVars>>

NextParse == Parse

SpecParse == InitParse /\ [][NextParse]_vars

(***************************************************************************)
(* Properties of parse_sbs_line (SpecParse)                                *)
(***************************************************************************)

\* C1: parse_sbs_line never raises: for every input line it returns a
\* ParsedMessage or None.
C1_NeverRaises == parsed.tag \in {"Pending", "None", "Msg"}

\* Field i of the line is there, is not blank, is a number and lies within
\* [-lim, lim].
CoordinateWithin(l, i, lim) ==
    LET fields == RawLine(l) IN
    /\ Len(fields) > i
    /\ Strip(Fld(fields, i)) # ""
    /\ PyFloat(Fld(fields, i)) # None
    /\ PyFloat(Fld(fields, i))[1].k = "fin"
    /\ -lim * 1000 <= PyFloat(Fld(fields, i))[1].m
    /\ PyFloat(Fld(fields, i))[1].m <= lim * 1000

\* C11: in every ParsedMessage that parse_sbs_line returns, has_position is
\* true iff lat and lon are both set; they are set (to the numbers of fields
\* 14 and 15) iff both fields are present, numeric and within [-90, 90] and
\* [-180, 180]; otherwise both are absent, never exactly one.
C11_PositionPairwise ==
    parsed.tag = "Msg" =>
        LET m == parsed.msg IN
        /\ m.has_position = (m.lat # None /\ m.lon # None)
        /\ (m.lat # None) = (m.lon # None)
        /\ (m.lat # None) =
              (CoordinateWithin(line, 14, 90) /\ CoordinateWithin(line, 15, 180))
        /\ m.lat # None =>
              /\ m.lat = PyFloat(Fld(RawLine(line), 14))
              /\ m.lon = PyFloat(Fld(RawLine(line), 15))

\* A latitude of 95.0 with a valid longitude: the message is returned with
\* neither coordinate and with its other fields.
C11_Witness ==
    /\ line = Subst(Line1, 14, "95.0")
    /\ parsed.tag = "Msg"
    /\ parsed.msg.lat = None
    /\ parsed.msg.lon = None
    /\ parsed.msg.has_position = FALSE
    /\ parsed.msg.altitude_ft = Some(38000)

\* The decodable lines whose fields are replaced, the optional fields, and
\* the texts that are not a value of the field: text that is no number; for
\* the integer fields (subtype, altitude, vertical rate) also "inf" and
\* "nan", for the subtype also "95.0"; for a flag anything but "0" and "1".
DecodableLines == {Line1, Line2, LineFull}

FlagFields == {18, 19, 20, 21}

OptionalFields == {1, 11, 12, 13, 14, 15, 16} \cup FlagFields

Unparseable(i) ==
    {"x", "SEL", "3c5ef2"}
    \cup (IF i \in {1, 11, 16} THEN {"inf", "nan"} ELSE {})
    \cup (IF i = 1 THEN {"95.0"} ELSE {})
    \cup (IF i \in FlagFields THEN {"7700", "inf"} ELSE {})

\* The decoded fields of a message (raw is the line itself).
Decoded(m) == [f \in DOMAIN m \ {"raw"} |-> m[f]]

\* The message m with the value of the line's field i absent.
Without(m, i) ==
    CASE i = 1  -> [m EXCEPT !.transmission_type = None]
      [] i = 11 -> [m EXCEPT !.altitude_ft = None]
      [] i = 12 -> [m EXCEPT !.ground_speed_kts = None]
      [] i = 13 -> [m EXCEPT !.track_deg = None]
      [] i \in {14, 15} ->
            [m EXCEPT !.lat = None, !.lon = None, !.has_position = FALSE]
      [] i = 16 -> [m EXCEPT !.vertical_rate_fpm = None]
      [] i = 18 -> [m EXCEPT !.alert = None]
      [] i = 19 -> [m EXCEPT !.emergency = None]
      [] i = 20 -> [m EXCEPT !.spi = None]
      [] i = 21 -> [m EXCEPT !.on_ground = None]

\* C13: a field that fails to parse is absent for that field only: a
\* decodable line with the text of one optional field replaced by text that
\* is not a value of the field still gives a ParsedMessage, with that field
\* absent and every other field as the original line gives it.
C13_BadFieldOnlyThatField ==
    \A base \in DecodableLines, i \in OptionalFields :
        \A t \in Unparseable(i) :
            (line = Subst(base, i, t) /\ parsed # Pending) =>
                /\ parsed.tag = "Msg"
                /\ Decoded(parsed.msg) =
                      Decoded(Without(parse_sbs_line(base).msg, i))

FieldText(i) == IF Len(line) > i THEN Strip(Fld(line, i)) ELSE ""

\* A text field: absent when empty.
TextOrAbsent(t) == IF t = "" THEN None ELSE Some(t)

\* v is the number x (in thousandths) truncated toward zero.
TruncationOf(x, v) ==
    IF x >= 0 THEN v * 1000 <= x /\ x < (v + 1) * 1000
    ELSE x <= v * 1000 /\ (v - 1) * 1000 < x

\* value is what text denotes as a float truncated to an integer: absent
\* when the text is empty, not a number or nan.
TruncatedNumber(text, value) ==
    IF PyFloat(text) = None \/ PyFloat(text)[1].k # "fin"
    THEN value = None
    ELSE value # None /\ TruncationOf(PyFloat(text)[1].m, value[1])

\* value is the flag that text denotes.
FlagOf(text, value) ==
    /\ text = "1" => value = Some(TRUE)
    /\ text = "0" => value = Some(FALSE)
    /\ text \notin {"0", "1"} => value = None

\* C22: in every ParsedMessage that parse_sbs_line returns the fields are
\* mapped by position: 1 transmission_type, 4 icao in upper case, 10
\* callsign, 11 altitude and 16 vertical rate (float truncated to integer),
\* 12 ground speed, 13 track, 14/15 lat/lon, 17 squawk, 18-21 the flags
\* ("1" true, "0" false, anything else absent); an empty or missing field
\* is absent.
C22_PositionalMapping ==
    parsed.tag = "Msg" =>
        LET m == parsed.msg IN
        /\ m.transmission_type = PyInt(FieldText(1))
        /\ m.icao = Upper(FieldText(4))
        /\ m.callsign = TextOrAbsent(FieldText(10))
        /\ TruncatedNumber(FieldText(11), m.altitude_ft)
        /\ m.ground_speed_kts = PyFloat(FieldText(12))
        /\ m.track_deg = PyFloat(FieldText(13))
        /\ m.lat \in {None, PyFloat(FieldText(14))}
        /\ m.lon \in {None, PyFloat(FieldText(15))}
        /\ TruncatedNumber(FieldText(16), m.vertical_rate_fpm)
        /\ m.squawk = TextOrAbsent(FieldText(17))
        /\ FlagOf(FieldText(18), m.alert)
        /\ FlagOf(FieldText(19), m.emergency)
        /\ FlagOf(FieldText(20), m.spi)
        /\ FlagOf(FieldText(21), m.on_ground)

\* The full line with the identifier in lower case is decoded.
C22_Witness ==
    /\ line = Subst(LineFull, 4, "3c5ef2")
    /\ parsed.tag = "Msg"
    /\ parsed.msg.icao = "3C5EF2"
    /\ parsed.msg.vertical_rate_fpm = Some(-640)
    /\ parsed.msg.squawk = Some("7700")
    /\ parsed.msg.alert = Some(FALSE)
    /\ parsed.msg.on_ground = Some(TRUE)

(***************************************************************************)
(* Properties of AircraftStateTracker.update (Spec)                        *)
(***************************************************************************)

\* The messages merged so far for one aircraft, in order.
MsgsOf(icao) == SelectSeq(fed, LAMBDA m : m.icao = icao)

\* The last value of a field among the messages h that is not None (and,
\* for text, not empty); dflt when no message has one.
RECURSIVE LastValue(_, _, _)
LastValue(h, f, dflt) ==
    IF h = <<>> THEN dflt
    ELSE IF h[Len(h)][f] # None THEN h[Len(h)][f]
    ELSE LastValue(SubSeq(h, 1, Len(h) - 1), f, dflt)

RECURSIVE LastText(_, _, _)
LastText(h, f, dflt) ==
    IF h = <<>> THEN dflt
    ELSE IF h[Len(h)][f] # None /\ h[Len(h)][f] # Some("") THEN h[Len(h)][f]
    ELSE LastText(SubSeq(h, 1, Len(h) - 1), f, dflt)

LastMsg == fed[Len(fed)]

\* C2: after any sequence of messages for one aircraft, each state field is
\* the last non-null (for callsign and squawk: non-empty) value of that field
\* in the sequence; an absent field never clears the state.
C2_LastNonNullWins ==
    /\ \A k \in 1..Len(fed) : fed[k].icao \in DOMAIN st
    /\ \A i \in DOMAIN st :
        LET h == MsgsOf(i) IN
        /\ Some(st[i].flight) = LastText(h, "callsign", Some(""))
        /\ st[i].squawk = LastText(h, "squawk", None)
        /\ st[i].lat = LastValue(h, "lat", None)
        /\ st[i].lon = LastValue(h, "lon", None)
        /\ st[i].altitude_ft = LastValue(h, "altitude_ft", None)
        /\ st[i].speed_kts = LastValue(h, "ground_speed_kts", None)
        /\ st[i].heading_deg = LastValue(h, "track_deg", None)
        /\ st[i].vertical_rate_fpm = LastValue(h, "vertical_rate_fpm", None)
        /\ st[i].alert = LastValue(h, "alert", None)
        /\ st[i].emergency = LastValue(h, "emergency", None)
        /\ st[i].spi = LastValue(h, "spi", None)
        /\ st[i].on_ground = LastValue(h, "on_ground", None)

\* A message with empty callsign and squawk and no other field arrives last
\* and the values merged before it are still in the state.
C2_Witness ==
    /\ fed = <<MsgPos, MsgCodes, MsgEmptyText>>
    /\ st["ABC123"].flight = "TEST123"
    /\ st["ABC123"].squawk = Some("7700")
    /\ st["ABC123"].lat = Some(Fin(40000))
    /\ st["ABC123"].on_ground = Some(FALSE)

\* The message is one that parse_sbs_line returns for a line of the feed.
FromParser(m) == \E l \in FeedLines : parse_sbs_line(l) = ResMsg(m)

\* C12: in every state of a tracker fed, in any order and for any number of
\* aircraft, with messages produced by parse_sbs_line, every AircraftState
\* has latitude and longitude both present or both absent.
C12_LatLonTogether ==
    (\A k \in 1..Len(fed) : FromParser(fed[k])) =>
        \A i \in DOMAIN st : (st[i].lat = None) = (st[i].lon = None)

\* Two aircraft, one with a position and one without, after a feed that
\* held a line with a latitude and no longitude.
C12_Witness ==
    /\ Len(fed) = 3
    /\ \A k \in 1..Len(fed) : FromParser(fed[k])
    /\ \E k \in 1..Len(fed) : fed[k].raw = Subst(Line1, 15, "")
    /\ "3C5EF2" \in DOMAIN st /\ st["3C5EF2"].lat = None
    /\ "4CA2B1" \in DOMAIN st /\ st["4CA2B1"].lat # None

\* A message with ground speed or track angle and neither latitude nor
\* longitude.
KinematicOnly(m) ==
    /\ m.lat = None /\ m.lon = None
    /\ (m.ground_speed_kts # None \/ m.track_deg # None)

\* Some message for the aircraft of the last message carried field f.
Carried(f) == \E k \in 1..Len(fed) : fed[k].icao = LastMsg.icao /\ fed[k][f] # None

\* C7 (as claimed): a kinematic-only message never produces a snapshot,
\* whatever was merged before.
C7_KinematicOnlyNeverSnapshot ==
    (out.tag = "Upd" /\ KinematicOnly(LastMsg)) => out.position = None

\* C7 (amended): a kinematic-only message produces no snapshot exactly when
\* no earlier message gave the aircraft a latitude, or none gave it a
\* longitude; when both were merged before, update returns a snapshot.
C7_KinematicOnlySnapshotIffPositionKnown ==
    (out.tag = "Upd" /\ KinematicOnly(LastMsg)) =>
        (out.position = None <=> ~(Carried("lat") /\ Carried("lon")))

C7_Witness ==
    /\ fed = <<MsgPos, MsgVel>>
    /\ out.tag = "Upd"
    /\ out.position # None

\* The decoded scenario lines.
M1 == parse_sbs_line(Line1).msg
M2 == parse_sbs_line(Line2).msg

\* C8 (as claimed): line 1 gives a snapshot with hasFullKinematics = false
\* and heading_deg = null; line 2 then gives speed 380, heading 160 and
\* hasFullKinematics = true.
C8_ScenarioAsClaimed ==
    /\ (fed = <<M1>> /\ out.tag = "Upd") =>
          /\ out.position # None
          /\ out.has_full = FALSE
          /\ out.position[1].heading_deg = None
    /\ (fed = <<M1, M2>> /\ out.tag = "Upd") =>
          /\ out.position # None
          /\ out.position[1].speed_kts = Some(Fin(380000))
          /\ out.position[1].heading_deg = Some(Fin(160000))
          /\ out.has_full = TRUE

\* C8 (amended): line 1 carries ground speed 376 and track 158 in fields 12
\* and 13, so its snapshot has speed_kts = 376, heading_deg = 158 and
\* hasFullKinematics = true; line 2 then gives speed 380, heading 160 and
\* hasFullKinematics = true.
C8_Scenario ==
    /\ (fed = <<M1>> /\ out.tag = "Upd") =>
          /\ out.position # None
          /\ out.has_full = TRUE
          /\ out.position[1].speed_kts = Some(Fin(376000))
          /\ out.position[1].heading_deg = Some(Fin(158000))
    /\ (fed = <<M1, M2>> /\ out.tag = "Upd") =>
          /\ out.position # None
          /\ out.position[1].speed_kts = Some(Fin(380000))
          /\ out.position[1].heading_deg = Some(Fin(160000))
          /\ out.has_full = TRUE

C8_Witness ==
    /\ fed = <<M1, M2>>
    /\ out.tag = "Upd"
    /\ out.position # None
    /\ out.position[1].lat = Some(Fin(45630))

\* C9: hasFullKinematics is true exactly when the merged state of the
\* aircraft has latitude, longitude, ground speed and track angle, whichever
\* messages brought them; a position-only message followed by a
\* velocity-only message returns false, then true with the merged speed and
\* heading.
C9_HasFullKinematics ==
    /\ out.tag = "Upd" =>
          /\ out.has_full = (/\ st[LastMsg.icao].lat # None
                             /\ st[LastMsg.icao].lon # None
                             /\ st[LastMsg.icao].speed_kts # None
                             /\ st[LastMsg.icao].heading_deg # None)
          /\ out.has_full = (/\ Carried("lat") /\ Carried("lon")
                             /\ Carried("ground_speed_kts")
                             /\ Carried("track_deg"))
    /\ (fed = <<MsgPos>> /\ out.tag = "Upd") => out.has_full = FALSE
    /\ (fed = <<MsgPos, MsgVel>> /\ out.tag = "Upd") =>
          /\ out.has_full = TRUE
          /\ out.position # None
          /\ out.position[1].speed_kts = Some(Fin(250000))
          /\ out.position[1].heading_deg = Some(Fin(90000))

\* The velocity arrived first and the position last: the last message has no
\* velocity and the result is complete.
C9_Witness ==
    /\ fed = <<MsgVel, MsgPos>>
    /\ out.tag = "Upd"
    /\ out.has_full = TRUE

\* C10: update returns a snapshot iff the state it merged into has latitude
\* and longitude, and the snapshot carries that state's field values.
C10_SnapshotIffPosition ==
    out.tag = "Upd" =>
        LET s == st[LastMsg.icao] IN
        /\ out.position # None <=> (s.lat # None /\ s.lon # None)
        /\ out.position # None <=> (Carried("lat") /\ Carried("lon"))
        /\ out.position # None =>
              out.position[1] =
                 [icao |-> LastMsg.icao, flight |-> s.flight,
                  lat |-> s.lat, lon |-> s.lon,
                  altitude_ft |-> s.altitude_ft, speed_kts |-> s.speed_kts,
                  heading_deg |-> s.heading_deg,
                  vertical_rate_fpm |-> s.vertical_rate_fpm,
                  squawk |-> s.squawk, alert |-> s.alert,
                  emergency |-> s.emergency, spi |-> s.spi,
                  on_ground |-> s.on_ground]

\* A latitude alone gave no snapshot; the snapshot returned once the
\* longitude is known carries the squawk merged in between.
C10_Witness ==
    /\ fed = <<MsgLatOnly, MsgCodes, MsgPos>>
    /\ out.tag = "Upd"
    /\ out.position # None
    /\ out.position[1].squawk = Some("7700")
    /\ out.position[1].altitude_ft = Some(10000)

\* C15: build_adsb_position_event raises and returns no event whenever the
\* state's latitude or longitude is null; an event it returns carries the
\* state's own coordinates, never a default.
C15_BuildFailsWithoutPosition ==
    out.tag = "Built" =>
        LET state == st[out.icao] IN
        /\ (state.lat = None \/ state.lon = None) =>
              out.result = ResRaise("ValueError")
        /\ out.result.tag = "Event" =>
              /\ state.lat # None /\ state.lon # None
              /\ out.result.event.position.lat = state.lat[1]
              /\ out.result.event.position.lon = state.lon[1]

\* The tracked state has a latitude and no longitude, and the build raised.
C15_Witness ==
    /\ fed = <<MsgCodes, MsgLatOnly>>
    /\ out.tag = "Built"
    /\ st[out.icao].lat # None
    /\ st[out.icao].lon = None
    /\ out.result = ResRaise("ValueError")

(***************************************************************************)
(* Properties of the enrichment lookup (SpecEnrich)                        *)
(***************************************************************************)

\* The aircraft identifiers of the messages h, each once, in the order of
\* their first message.
RECURSIVE FirstSeen(_)
FirstSeen(h) ==
    IF h = <<>> THEN <<>>
    ELSE LET r == FirstSeen(SubSeq(h, 1, Len(h) - 1))
             i == h[Len(h)].icao
         IN  IF \E k \in 1..Len(r) : r[k] = i THEN r ELSE Append(r, i)

\* The lookup raised or returned nothing.
LookupFailed(outcome) ==
    \/ outcome.tag = "raise"
    \/ outcome.tag = "return" /\ outcome.info = None
    \/ outcome.tag = "return" /\ outcome.info = Some(<<>>)

\* C16: the enrichment lookup is invoked exactly once per distinct aircraft
\* identifier, on the update that creates the aircraft's state, and never
\* on later updates; when it raises or returns nothing the state is created
\* all the same, without enrichment, and the message is merged into it.
C16_LookupOncePerAircraft ==
    /\ [k \in 1..Len(lookups) |-> lookups[k].icao] = FirstSeen(fed)
    /\ \A k \in 1..Len(fed) : fed[k].icao \in DOMAIN st
    /\ \A k \in 1..Len(lookups) :
          LET s == st[lookups[k].icao]
              h == MsgsOf(lookups[k].icao)
          IN  /\ Some(s.flight) = LastText(h, "callsign", Some(""))
              /\ s.lat = LastValue(h, "lat", None)
              /\ s.lon = LastValue(h, "lon", None)
              /\ s.altitude_ft = LastValue(h, "altitude_ft", None)
              /\ s.speed_kts = LastValue(h, "ground_speed_kts", None)
              /\ s.heading_deg = LastValue(h, "track_deg", None)
              /\ LookupFailed(lookups[k].outcome) =>
                    /\ s.registration = None /\ s.icao_type = None
                    /\ s.model = None /\ s.is_military = None
                    /\ s.is_interesting = None /\ s.is_pia = None
                    /\ s.is_ladd = None
              /\ lookups[k].outcome = LookupReturns(Some(InfoEntry)) =>
                    /\ s.registration = Some("D-AEWG")
                    /\ s.icao_type = Some("A320")
                    /\ s.model = None
                    /\ s.is_military = Some(FALSE)
                    /\ s.is_interesting = Some(TRUE)

\* Three messages of two aircraft: two lookups, the first raised, the
\* second found nothing, and the last update returned a snapshot.
C16_Witness ==
    /\ Len(fed) = 3
    /\ lookups = <<[icao |-> "3C5EF2", outcome |-> LookupRaises],
                   [icao |-> "4CA2B1", outcome |-> LookupReturns(None)]>>
    /\ fed[3].icao = "3C5EF2"
    /\ out.tag = "Upd"
    /\ out.position # None
    /\ st["3C5EF2"].registration = None


\* The block has the key exactly when the source value is not null, and
\* then with that value.
Carries(block, key, value) ==
    IF value = None THEN key \notin DOMAIN block
    ELSE key \in DOMAIN block /\ block[key] = value[1]

\* C23: in every event each block holds exactly the fields whose source
\* value is not null, false and 0 included; position always has lat and
\* lon, aircraft always has icaoHex, an empty callsign is left out, and
\* tsUnixMs is the timestamp override whenever one is given, 0 included.
C23_BlocksDropOnlyNulls ==
    (out.tag = "Built" /\ out.result.tag = "Event") =>
        LET ev    == out.result.event
            state == st[out.icao]
            msg   == fed[Len(fed)]
        IN
        /\ DOMAIN ev.aircraft \subseteq
              {"icaoHex", "callsign", "registration", "icaoType", "model",
               "isMilitary", "isInteresting", "isPIA", "isLADD"}
        /\ ev.aircraft.icaoHex = state.icao
        /\ Carries(ev.aircraft, "callsign",
                   IF state.flight = "" THEN None ELSE Some(state.flight))
        /\ Carries(ev.aircraft, "registration", state.registration)
        /\ Carries(ev.aircraft, "icaoType", state.icao_type)
        /\ Carries(ev.aircraft, "model", state.model)
        /\ Carries(ev.aircraft, "isMilitary", state.is_military)
        /\ Carries(ev.aircraft, "isInteresting", state.is_interesting)
        /\ Carries(ev.aircraft, "isPIA", state.is_pia)
        /\ Carries(ev.aircraft, "isLADD", state.is_ladd)
        /\ DOMAIN ev.position \subseteq
              {"lat", "lon", "altitudeFt", "groundSpeedKts", "trackDeg",
               "verticalRateFpm"}
        /\ {"lat", "lon"} \subseteq DOMAIN ev.position
        /\ Carries(ev.position, "lat", state.lat)
        /\ Carries(ev.position, "lon", state.lon)
        /\ Carries(ev.position, "altitudeFt", state.altitude_ft)
        /\ Carries(ev.position, "groundSpeedKts", state.speed_kts)
        /\ Carries(ev.position, "trackDeg", state.heading_deg)
        /\ Carries(ev.position, "verticalRateFpm", state.vertical_rate_fpm)
        /\ DOMAIN ev.codes \subseteq
              {"squawk", "alert", "emergency", "spi", "onGround"}
        /\ Carries(ev.codes, "squawk", state.squawk)
        /\ Carries(ev.codes, "alert", state.alert)
        /\ Carries(ev.codes, "emergency", state.emergency)
        /\ Carries(ev.codes, "spi", state.spi)
        /\ Carries(ev.codes, "onGround", state.on_ground)
        /\ DOMAIN ev.raw \subseteq {"sbs", "messageType", "transmissionType"}
        /\ Carries(ev.raw, "sbs", Some(msg.raw))
        /\ Carries(ev.raw, "messageType", Some(msg.message_type))
        /\ Carries(ev.raw, "transmissionType", msg.transmission_type)
        /\ out.timestamp_ms # None => ev.tsUnixMs = out.timestamp_ms[1]
        /\ out.timestamp_ms = None => ev.tsUnixMs = ClockMs(Len(fed))

\* An event built with the timestamp override 0 from an enriched state
\* without callsign: altitude 0 and the false flags are in it, the callsign,
\* the model and the vertical rate are not.
C23_Witness ==
    /\ out.tag = "Built"
    /\ out.result.tag = "Event"
    /\ out.timestamp_ms = Some(0)
    /\ st[out.icao].flight = ""
    /\ LET ev == out.result.event IN
        /\ ev.tsUnixMs = 0
        /\ DOMAIN ev.aircraft =
              {"icaoHex", "registration", "icaoType", "isMilitary",
               "isInteresting", "isPIA", "isLADD"}
        /\ ev.aircraft.isMilitary = FALSE
        /\ ev.position.altitudeFt = 0
        /\ "verticalRateFpm" \notin DOMAIN ev.position
        /\ ev.codes.alert = FALSE

(***************************************************************************)
(* SpecSup: the feed supervisors                                           *)
(*   "db"   stream_from_dump1090      (apps/adsb_to_db.py)                 *)
(*   "http" stream_positions, HTTP    (apps/adsb_sender.py)                *)
(*   "api"  stream_to_api             (adsb_sender.py)                     *)
(*   "csv"  main of the CSV logger    (apps/adsb_to_csv.py)                *)
(* The sink's answer to a flush is an input of the step that flushes: ok   *)
(* for the flush in the read loop or on the shutdown path, ok2 for the     *)
(* flush the error handler makes.                                          *)
(***************************************************************************)

RECONNECT_DELAY == 5
FLUSH_INTERVAL == 10
CURRENT_UPDATE_INTERVAL == 5

\* batch_size, the lines one behaviour reads, and the flushes it records.
BatchSize == 2
MaxLines == 4
MaxFlushes == 3

Kinds == {"db", "http", "api", "csv"}
Batching == {"db", "http", "api"}

\* The output modes of stream_positions, the asyncio sender.
Async == {"http", "nats"}

DEFAULT_SUBJECT == "adsb.position.v1"

\* The feed: a position line, a velocity line, a non-MSG line and a line
\* whose altitude is "inf".
SupLines == {Line1, Line2, LineSel, Subst(Line1, 11, "inf")}

\* The supervisor's local variables as one record.
Locals ==
    [pc |-> pc, exitBy |-> exitBy, finalFlush |-> finalFlush,
     batch |-> batch, record_count |-> record_count, last_log |-> last_log,
     flushed |-> flushed, appended |-> appended, delay |-> delay,
     open_feeds |-> open_feeds, shutdown_steps |-> shutdown_steps,
     published |-> published, current_positions |-> current_positions,
     current_csv |-> current_csv, current_written |-> current_written,
     last_current_update |-> last_current_update]

Becomes(s) ==
    /\ pc' = s.pc
    /\ exitBy' = s.exitBy
    /\ finalFlush' = s.finalFlush
    /\ batch' = s.batch
    /\ record_count' = s.record_count
    /\ last_log' = s.last_log
    /\ flushed' = s.flushed
    /\ appended' = s.appended
    /\ delay' = s.delay
    /\ open_feeds' = s.open_feeds
    /\ shutdown_steps' = s.shutdown_steps
    /\ published' = s.published
    /\ current_positions' = s.current_positions
    /\ current_csv' = s.current_csv
    /\ current_written' = s.current_written
    /\ last_current_update' = s.last_current_update

\* time.sleep(RECONNECT_DELAY) / await asyncio.sleep(RECONNECT_DELAY)
Sleep(s) == [s EXCEPT !.pc = "Backoff", !.delay = RECONNECT_DELAY]

\* An exception leaves the supervisor function: the process ends.
Die(s) ==
    [s EXCEPT !.pc = "Exited", !.exitBy = "sink_error", !.open_feeds = 0]

\* The sink takes the buffered rows.
Accept(s) == [s EXCEPT !.flushed = Append(@, s.batch)]

\* The "except (socket.error, OSError, ConnectionError)" / "except Exception"
\* clauses. db: flush_batches (which returns at once on empty lists) is
\* called unguarded and the lists are not cleared. http, api: the send is
\* guarded by try/except and the batch is cleared when it succeeds.
except_Exception(k, s, ok) ==
    CASE k = "db" ->
            IF s.batch = <<>> THEN Sleep(s)
            ELSE IF ok THEN Sleep(Accept(s))
            ELSE Die(s)
      [] k \in {"http", "api"} ->
            IF s.batch # <<>> /\ ok
            THEN Sleep([Accept(s) EXCEPT !.batch = <<>>])
            ELSE Sleep(s)
      [] k \in {"csv", "nats"} -> Sleep(s)

\* The feed connection, when one is open, is closed: by writer.close() in
\* the "finally" clause of stream_positions, by the end of the process in
\* the socket loops (which never call sock.close()).
CloseStep(s) == IF s.open_feeds > 0 THEN <<"close">> ELSE <<>>

\* get_current_max_age(): ADSB_CURRENT_MAX_AGE_SECONDS.
MaxAge == 2

\* datetime.isoformat() of the time t, and datetime.fromisoformat of a text:
\* None stands for the ValueError of a text that is no ISO timestamp.
isoformat(t) == [text |-> "iso", t |-> t]
fromisoformat(x) == IF x.text = "iso" THEN Some(x.t) ELSE None

\* The order of Python's string comparison on the aircraft identifiers.
IcaoRank(icao) ==
    CASE icao = "3C5EF2" -> 1
      [] icao = "4CA2B1" -> 2
      [] OTHER           -> 3

\* sorted(recent_positions, key=lambda x: x[0]) as a sequence of rows.
RECURSIVE SortedRows(_, _)
SortedRows(positions, icaos) ==
    IF icaos = {} THEN <<>>
    ELSE LET first == CHOOSE i \in icaos :
                          \A j \in icaos : IcaoRank(i) <= IcaoRank(j)
         IN  <<positions[first]>> \o SortedRows(positions, icaos \ {first})

\* write_current_positions_csv without the age filter.
write_current_positions_csv_unfiltered(positions, max_age_seconds, clock) ==
    SortedRows(positions, DOMAIN positions)

\* write_current_positions_csv(csv_path, current_positions, max_age_seconds)
\* called at the time clock: the rows of the file after the header. An entry
\* whose timestamp cannot be parsed is kept.
write_current_positions_csv(positions, max_age_seconds, clock) ==
    LET cutoff_time == clock - max_age_seconds
        recent == {icao \in DOMAIN positions :
                      LET pos_time == fromisoformat(positions[icao].timestamp_utc)
                      IN  pos_time = None \/ pos_time[1] >= cutoff_time}
    IN  SortedRows(positions, recent)

\* current_positions[position["icao"]] = position_with_ts
Put(positions, icao, pos) ==
    [i \in DOMAIN positions \cup {icao} |->
        IF i = icao THEN pos ELSE positions[i]]

\* The current-positions file is rewritten from current_positions.
WriteCurrent(s, n) ==
    [s EXCEPT !.current_csv =
                  write_current_positions_csv(s.current_positions, MaxAge, wall_clock),
              !.current_written = Some([at |-> wall_clock, n |-> n])]

\* The "except KeyboardInterrupt" clause: one flush of what is buffered (in
\* the CSV logger one more write of the current-positions file), then the
\* process ends ("break" and "finally", or sys.exit(0)).
except_KeyboardInterrupt(k, s0, ok) ==
    LET s    == IF k = "csv" /\ DOMAIN s0.current_positions # {}
                THEN WriteCurrent(s0, nread) ELSE s0
        done == [s EXCEPT !.pc = "Exited", !.exitBy = "shutdown",
                          !.open_feeds = 0]
    IN
    IF k = "csv" \/ s.batch = <<>>
    THEN [done EXCEPT !.finalFlush = "empty",
                      !.shutdown_steps = CloseStep(s)]
    ELSE IF ok
    THEN [Accept(done) EXCEPT !.finalFlush = "ok",
                              !.shutdown_steps = <<"flush">> \o CloseStep(s)]
    ELSE [done EXCEPT !.finalFlush = "failed",
                      !.shutdown_steps = <<"flush">> \o CloseStep(s)]

\* "if record_count - last_log >= FLUSH_INTERVAL: ...; last_log = record_count"
Log(s) ==
    IF s.record_count - s.last_log >= FLUSH_INTERVAL
    THEN [s EXCEPT !.last_log = s.record_count]
    ELSE s

\* position_to_rows / the dict appended to the HTTP batch: the aircraft and
\* the moment of the snapshot (the number of the line that produced it).
Entry(position, n) == [icao |-> position.icao, n |-> n]

Buffer(s, e) ==
    [s EXCEPT !.batch = Append(@, e), !.appended = @ \cup {e}]

\* The body of the read loop after tracker.update returned r, for the line
\* number n.
LoopBody(k, s, r, msg, n, ok, ok2) ==
    CASE k = "db" ->
            LET s1 == IF r.position # None
                      THEN [Buffer(s, Entry(r.position[1], n)) EXCEPT
                               !.record_count = @ + 1]
                      ELSE s
            IN  IF s1.record_count # 0 /\ s1.record_count % batch_size = 0
                THEN IF s1.batch = <<>> THEN Log(s1)
                     ELSE IF ok THEN Log([Accept(s1) EXCEPT !.batch = <<>>])
                     ELSE except_Exception(k, s1, ok2)
                ELSE Log(s1)
      [] k = "http" ->
            IF r.position = None THEN s
            ELSE LET s1 == Buffer(s, Entry(r.position[1], n))
                     s2 == IF Len(s1.batch) >= batch_size
                           THEN [Accept(s1) EXCEPT !.batch = <<>>]
                           ELSE s1
                 IN  IF Len(s1.batch) >= batch_size /\ ~ok
                     THEN except_Exception(k, s1, ok2)
                     ELSE Log([s2 EXCEPT !.record_count = @ + 1])
      [] k = "api" ->
            IF r.position = None THEN s
            ELSE LET s1 == [Buffer(s, Entry(r.position[1], n)) EXCEPT
                               !.record_count = @ + 1]
                 IN  IF Len(s1.batch) >= batch_size
                     THEN IF ok THEN Log([Accept(s1) EXCEPT !.batch = <<>>])
                          ELSE except_Exception(k, s1, ok2)
                     ELSE Log(s1)
      [] k = "nats" ->
            IF r.position = None THEN s
            ELSE LET built == build_adsb_position_event(
                                  r.states[msg.icao], SOURCE_ID, Some(msg.raw),
                                  Some(msg.message_type),
                                  msg.transmission_type, None, ClockMs(n))
                 IN  IF built.tag = "Event" /\ ok
                     THEN Log([s EXCEPT
                                  !.published =
                                      Append(@, [subject |-> DEFAULT_SUBJECT,
                                                 payload |-> built.event]),
                                  !.record_count = @ + 1])
                     ELSE except_Exception(k, s, ok2)
      [] k = "csv" ->
            LET s1 == IF r.position # None
                      THEN [s EXCEPT
                               !.flushed = Append(@, <<Entry(r.position[1], n)>>),
                               !.appended = @ \cup {Entry(r.position[1], n)},
                               !.current_positions =
                                   Put(@, r.position[1].icao,
                                       [timestamp_utc |-> isoformat(wall_clock),
                                        icao          |-> r.position[1].icao,
                                        n             |-> n])]
                      ELSE s
                s2 == [s1 EXCEPT !.record_count = @ + 1]
                s3 == IF s2.record_count - s2.last_current_update
                            >= CURRENT_UPDATE_INTERVAL
                      THEN [WriteCurrent(s2, n) EXCEPT
                               !.last_current_update = s2.record_count]
                      ELSE s2
            IN  Log(s3)

InitSup ==
    /\ line = LineEmpty
    /\ parsed = Pending
    /\ st = <<>>
    /\ fed = <<>>
    /\ out = Pending
    /\ lookups = <<>>
    /\ kind \in Kinds
    /\ lookup_aircraft_info = (kind \in Async)
    /\ batch_size = BatchSize
    /\ pc = "Starting"
    /\ open_feeds = 0
    /\ shutdown_steps = <<>>
    /\ exitBy = ""
    /\ finalFlush = ""
    /\ batch = <<>>
    /\ record_count = 0
    /\ last_log = 0
    /\ flushed = <<>>
    /\ appended = {}
    /\ published = <<>>
    /\ snapshots = <<>>
    /\ wall_clock = 0
    /\ current_positions = <<>>
    /\ current_csv = <<>>
    /\ current_written = None
    /\ last_current_update = 0
    /\ aircraft_table = <<>>
    /\ positions_table = <<>>
    /\ db_last = NoWrite
    /\ publisher = NewPublisher
    /\ nc = NewClient
    /\ tasks = [t \in Tasks |-> Idle]
    /\ calls = 0
    /\ nread = 0
    /\ delay = 0

\* The configuration is complete and the sink is set up: the loop starts.
Start ==
    /\ pc = "Starting"
    /\ pc' = "Connecting"
    /\ UNCHANGED <<trackerVars, kind, batch_size, published, snapshots, wall_clock,
                   csvVars, dbVars, natsVars,
                   open_feeds, shutdown_steps,
                   exitBy, finalFlush, batch, record_count, last_log, flushed,
                   appended, nread, delay>>

\* A required setting is missing: ADSB_INGEST_URL (sys.exit(1) in
\* stream_positions and in main of the legacy sender), ADSB_DB_URL
\* (RuntimeError of get_db_url). The CSV logger has no required setting.
ConfigError ==
    /\ pc = "Starting"
    /\ kind \in {"http", "api", "db"}
    /\ pc' = "Exited"
    /\ exitBy' = "config_error"
    /\ UNCHANGED <<trackerVars, kind, batch_size, published, snapshots, wall_clock,
                   csvVars, dbVars, natsVars,
                   open_feeds, shutdown_steps,
                   finalFlush, batch, record_count, last_log, flushed,
                   appended, nread, delay>>

\* connect_db or ensure_schema raises before the loop of
\* stream_from_dump1090: the exception leaves the function.
StartupSinkError ==
    /\ pc = "Starting"
    /\ kind \in {"db", "nats"}
    /\ pc' = "Exited"
    /\ exitBy' = "startup_sink_error"
    /\ UNCHANGED <<trackerVars, kind, batch_size, published, snapshots, wall_clock,
                   csvVars, dbVars, natsVars,
                   open_feeds, shutdown_steps,
                   finalFlush, batch, record_count, last_log, flushed,
                   appended, nread, delay>>

\* connect_to_dump1090 returns a connection. In the socket loops the
\* previous socket, never closed, is released when "sock" is bound to the
\* new one.
Connect ==
    /\ pc = "Connecting"
    /\ pc' = "Streaming"
    /\ open_feeds' = 1
    /\ UNCHANGED <<trackerVars, kind, batch_size, published, snapshots, wall_clock,
                   csvVars, dbVars, natsVars,
                   shutdown_steps, exitBy,
                   finalFlush, batch, record_count, last_log, flushed,
                   appended, nread, delay>>

\* connect_to_dump1090 raises OSError.
ConnectFail(ok) ==
    /\ pc = "Connecting"
    /\ Len(flushed) < MaxFlushes
    /\ Becomes(except_Exception(kind, Locals, ok))
    /\ UNCHANGED <<trackerVars, kind, batch_size, snapshots, wall_clock, dbVars,
                   natsVars, nread>>

\* One line is read and processed: parse_sbs_line, tracker.update, the
\* buffering and the flush of a full batch. An exception of parse_sbs_line
\* is caught per line in the CSV logger and by the reconnect handler in the
\* other supervisors.
ReadLineBody(l, ok, ok2, outcome) ==
    /\ pc = "Streaming"
    /\ nread' = nread + 1
    /\ LET p == parse_sbs_line(l) IN
        CASE p.tag = "None" ->
                /\ outcome = NotCalled
                /\ UNCHANGED <<st, lookups, snapshots>>
                /\ Becomes(Locals)
          [] p.tag = "Raise" ->
                /\ outcome = NotCalled
                /\ UNCHANGED <<st, lookups, snapshots>>
                /\ Becomes(IF kind = "csv" THEN Locals
                           ELSE except_Exception(kind, Locals, ok2))
          [] p.tag = "Msg" ->
                LET r == update(st, p.msg, nread + 1, lookup_aircraft_info,
                                outcome)
                IN
                /\ outcome \in OutcomesFor(p.msg.icao)
                /\ st' = r.states
                /\ lookups' = lookups \o r.lookups
                /\ snapshots' =
                       IF r.position = None THEN snapshots
                       ELSE Append(snapshots, [n        |-> nread + 1,
                                               at       |-> wall_clock,
                                               icao     |-> p.msg.icao,
                                               has_full |-> r.has_full])
                /\ Becomes(LoopBody(kind, Locals, r, p.msg, nread + 1, ok,
                                    ok2))
    /\ UNCHANGED <<line, parsed, fed, out, lookup_aircraft_info, kind,
                   batch_size, wall_clock, dbVars,
                   natsVars>>

ReadLine(l, ok, ok2, outcome) ==
    /\ nread < MaxLines
    /\ Len(flushed) < MaxFlushes
    /\ ReadLineBody(l, ok, ok2, outcome)

\* The peer closes the connection: "for line in f" ends, readline returns
\* b"" and the loop breaks. No exception: control returns to the top of
\* "while True"; on the way the "finally" clause of stream_positions closes
\* the writer, and the "with" statement of the socket loops closes the file
\* object but not the socket.
Eof ==
    /\ pc = "Streaming"
    /\ pc' = "Connecting"
    /\ open_feeds' = IF kind \in Async THEN 0 ELSE open_feeds
    /\ UNCHANGED <<trackerVars, kind, batch_size, published, snapshots, wall_clock,
                   csvVars, dbVars, natsVars,
                   shutdown_steps, exitBy,
                   finalFlush, batch, record_count, last_log, flushed,
                   appended, nread, delay>>

\* Reading the feed raises OSError / ConnectionError.
IoError(ok) ==
    /\ pc = "Streaming"
    /\ Len(flushed) < MaxFlushes
    /\ Becomes(except_Exception(kind, Locals, ok))
    /\ UNCHANGED <<trackerVars, kind, batch_size, snapshots, wall_clock, dbVars,
                   natsVars, nread>>

\* KeyboardInterrupt inside the try block (connecting or reading).
Interrupt(ok) ==
    /\ pc \in {"Connecting", "Streaming"}
    /\ Len(flushed) < MaxFlushes
    /\ Becomes(except_KeyboardInterrupt(kind, Locals, ok))
    /\ UNCHANGED <<trackerVars, kind, batch_size, snapshots, wall_clock, dbVars,
                   natsVars, nread>>

\* KeyboardInterrupt during the sleep of an except clause: no clause of the
\* same try statement handles it, it leaves the function.
InterruptInBackoff ==
    /\ pc = "Backoff"
    /\ pc' = "Exited"
    /\ exitBy' = "shutdown"
    /\ finalFlush' = "skipped"
    /\ open_feeds' = 0
    /\ shutdown_steps' = CloseStep(Locals)
    /\ UNCHANGED <<trackerVars, kind, batch_size, published, snapshots, wall_clock,
                   csvVars, dbVars, natsVars,
                   batch, record_count,
                   last_log, flushed, appended, nread, delay>>

\* stream_positions runs under asyncio.run, which on SIGINT cancels the
\* task: CancelledError is raised at the current await; neither "except
\* KeyboardInterrupt" nor "except Exception" catches it; the "finally"
\* clause closes the writer and the coroutine ends.
Cancelled ==
    /\ kind \in Async
    /\ pc \in {"Connecting", "Streaming", "Backoff"}
    /\ pc' = "Exited"
    /\ exitBy' = "shutdown"
    /\ finalFlush' = "skipped"
    /\ open_feeds' = 0
    /\ shutdown_steps' = CloseStep(Locals)
    /\ UNCHANGED <<trackerVars, kind, batch_size, published, snapshots, wall_clock,
                   csvVars, dbVars, natsVars,
                   batch, record_count,
                   last_log, flushed, appended, nread, delay>>

\* One second of the reconnection delay passes.
Tick ==
    /\ pc = "Backoff"
    /\ delay > 0
    /\ delay' = delay - 1
    /\ UNCHANGED <<trackerVars, kind, batch_size, published, snapshots, wall_clock,
                   csvVars, dbVars, natsVars,
                   pc, open_feeds,
                   shutdown_steps, exitBy, finalFlush, batch, record_count,
                   last_log, flushed, appended, nread>>

\* The sleep returns: back to the top of "while True", in stream_positions
\* through the "finally" clause, which closes the writer.
Wake ==
    /\ pc = "Backoff"
    /\ delay = 0
    /\ pc' = "Connecting"
    /\ open_feeds' = IF kind \in Async THEN 0 ELSE open_feeds
    /\ UNCHANGED <<trackerVars, kind, batch_size, published, snapshots, wall_clock,
                   csvVars, dbVars, natsVars,
                   shutdown_steps, exitBy,
                   finalFlush, batch, record_count, last_log, flushed,
                   appended, nread, delay>>

NextSup ==
    \/ Start
    \/ ConfigError
    \/ StartupSinkError
    \/ Connect
    \/ \E ok \in BOOLEAN : ConnectFail(ok)
    \/ \E l \in SupLines, ok \in BOOLEAN, ok2 \in BOOLEAN,
          o \in LookupOutcomes \cup {NotCalled} : ReadLine(l, ok, ok2, o)
    \/ Eof
    \/ \E ok \in BOOLEAN : IoError(ok)
    \/ \E ok \in BOOLEAN : Interrupt(ok)
    \/ InterruptInBackoff
    \/ Cancelled
    \/ Tick
    \/ Wake

SpecSup == InitSup /\ [][NextSup]_vars

(***************************************************************************)
(* stream_positions in NATS mode: one event per snapshot, published on     *)
(* DEFAULT_SUBJECT by NatsPublisher.publish; the client accepts the        *)
(* message or raises.                                                      *)
(***************************************************************************)

\* A position line with and without ground speed, a velocity line and a
\* non-MSG line.
BusLines == {Line1, Subst(Line1, 12, ""), Line2, LineSel}

\* AircraftDatabase().lookup finds the aircraft or not.
BusOutcomes == {LookupReturns(None), LookupReturns(Some(InfoEntry)), NotCalled}

InitBus ==
    /\ line = LineEmpty
    /\ parsed = Pending
    /\ st = <<>>
    /\ fed = <<>>
    /\ out = Pending
    /\ lookups = <<>>
    /\ kind = "nats"
    /\ lookup_aircraft_info = TRUE
    /\ batch_size = BatchSize
    /\ pc = "Starting"
    /\ open_feeds = 0
    /\ shutdown_steps = <<>>
    /\ exitBy = ""
    /\ finalFlush = ""
    /\ batch = <<>>
    /\ record_count = 0
    /\ last_log = 0
    /\ flushed = <<>>
    /\ appended = {}
    /\ published = <<>>
    /\ snapshots = <<>>
    /\ wall_clock = 0
    /\ current_positions = <<>>
    /\ current_csv = <<>>
    /\ current_written = None
    /\ last_current_update = 0
    /\ aircraft_table = <<>>
    /\ positions_table = <<>>
    /\ db_last = NoWrite
    /\ publisher = NewPublisher
    /\ nc = NewClient
    /\ tasks = [t \in Tasks |-> Idle]
    /\ calls = 0
    /\ nread = 0
    /\ delay = 0

\* One line is read and processed; ok: the client accepts the publish.
ReadBus(l, ok, outcome) ==
    /\ nread < MaxLines
    /\ ReadLineBody(l, ok, TRUE, outcome)

NextBus ==
    \/ Start
    \/ StartupSinkError
    \/ Connect
    \/ ConnectFail(TRUE)
    \/ \E l \in BusLines : \E ok \in BOOLEAN :
          \E o \in BusOutcomes : ReadBus(l, ok, o)
    \/ Eof
    \/ IoError(TRUE)
    \/ Interrupt(TRUE)
    \/ InterruptInBackoff
    \/ Cancelled
    \/ Tick
    \/ Wake

SpecBus == InitBus /\ [][NextBus]_vars

(***************************************************************************)
(* The CSV logger with its clock: the current-positions file is rewritten  *)
(* every CURRENT_UPDATE_INTERVAL records and once more on shutdown.        *)
(***************************************************************************)

MaxCsvLines == 6
MaxClock == 3

\* Position lines of two aircraft.
CsvLines == {Line1, Subst(Line1, 4, "4CA2B1")}

InitCsv ==
    /\ line = LineEmpty
    /\ parsed = Pending
    /\ st = <<>>
    /\ fed = <<>>
    /\ out = Pending
    /\ lookups = <<>>
    /\ kind = "csv"
    /\ lookup_aircraft_info = FALSE
    /\ batch_size = 0
    /\ pc = "Starting"
    /\ open_feeds = 0
    /\ shutdown_steps = <<>>
    /\ exitBy = ""
    /\ finalFlush = ""
    /\ batch = <<>>
    /\ record_count = 0
    /\ last_log = 0
    /\ flushed = <<>>
    /\ appended = {}
    /\ published = <<>>
    /\ snapshots = <<>>
    /\ wall_clock = 0
    /\ current_positions = <<>>
    /\ current_csv = <<>>
    /\ current_written = None
    /\ last_current_update = 0
    /\ aircraft_table = <<>>
    /\ positions_table = <<>>
    /\ db_last = NoWrite
    /\ publisher = NewPublisher
    /\ nc = NewClient
    /\ tasks = [t \in Tasks |-> Idle]
    /\ calls = 0
    /\ nread = 0
    /\ delay = 0

ReadCsv(l) ==
    /\ nread < MaxCsvLines
    /\ ReadLineBody(l, TRUE, TRUE, NotCalled)

\* One second passes.
Pass ==
    /\ pc # "Exited"
    /\ wall_clock < MaxClock
    /\ wall_clock' = wall_clock + 1
    /\ UNCHANGED <<trackerVars, kind, batch_size, pc, open_feeds,
                   shutdown_steps, exitBy, finalFlush, batch, record_count,
                   last_log, flushed, appended, published, snapshots, csvVars,
                   dbVars, natsVars,
                   nread, delay>>

InterruptCsv ==
    /\ pc \in {"Connecting", "Streaming"}
    /\ Becomes(except_KeyboardInterrupt(kind, Locals, TRUE))
    /\ UNCHANGED <<trackerVars, kind, batch_size, snapshots, wall_clock, dbVars,
                   natsVars, nread>>

NextCsv ==
    \/ Start
    \/ Connect
    \/ \E l \in CsvLines : ReadCsv(l)
    \/ Pass
    \/ InterruptCsv

SpecCsv == InitCsv /\ [][NextCsv]_vars

(***************************************************************************)
(* A long quiet run of a batching supervisor: batch_size larger than       *)
(* FLUSH_INTERVAL, as with the defaults (100 and 10), a feed that stays    *)
(* connected and a sink that accepts every flush.                          *)
(***************************************************************************)

LargeBatch == 12
LongFeed == 12

\* A position line and a velocity line of the same aircraft.
LongLines == {Line1, Line2}

InitLong ==
    /\ line = LineEmpty
    /\ parsed = Pending
    /\ st = <<>>
    /\ fed = <<>>
    /\ out = Pending
    /\ lookups = <<>>
    /\ kind \in Batching
    /\ lookup_aircraft_info = (kind \in Async)
    /\ batch_size = LargeBatch
    /\ pc = "Starting"
    /\ open_feeds = 0
    /\ shutdown_steps = <<>>
    /\ exitBy = ""
    /\ finalFlush = ""
    /\ batch = <<>>
    /\ record_count = 0
    /\ last_log = 0
    /\ flushed = <<>>
    /\ appended = {}
    /\ published = <<>>
    /\ snapshots = <<>>
    /\ wall_clock = 0
    /\ current_positions = <<>>
    /\ current_csv = <<>>
    /\ current_written = None
    /\ last_current_update = 0
    /\ aircraft_table = <<>>
    /\ positions_table = <<>>
    /\ db_last = NoWrite
    /\ publisher = NewPublisher
    /\ nc = NewClient
    /\ tasks = [t \in Tasks |-> Idle]
    /\ calls = 0
    /\ nread = 0
    /\ delay = 0

ReadLong(l, outcome) ==
    /\ nread < LongFeed
    /\ ReadLineBody(l, TRUE, TRUE, outcome)

NextLong ==
    \/ Start
    \/ Connect
    \/ \E l \in LongLines : \E o \in LookupOutcomes \cup {NotCalled} :
          ReadLong(l, o)

SpecLong == InitLong /\ [][NextLong]_vars

(***************************************************************************)
(* The database writer with a database that accepts every flush: the feed  *)
(* may still refuse connections, drop and end.                             *)
(***************************************************************************)

InitDbUp == InitSup /\ kind = "db"

NextDbUp ==
    \/ Start
    \/ Connect
    \/ ConnectFail(TRUE)
    \/ \E l \in SupLines : ReadLine(l, TRUE, TRUE, NotCalled)
    \/ Eof
    \/ IoError(TRUE)
    \/ Interrupt(TRUE)
    \/ InterruptInBackoff
    \/ Tick
    \/ Wake

SpecDbUp == InitDbUp /\ [][NextDbUp]_vars

(***************************************************************************)
(* The database sink: the tables aircraft and positions, written by        *)
(* flush_batches of the database writer and by the ingest endpoint of the  *)
(* API. A write is one transaction: an error rolls all of it back.         *)
(***************************************************************************)

MaxRows == 2
MaxDbCalls == 2

\* psycopg2.extras.execute_values(cur, sql, argslist, page_size=100): one
\* INSERT statement per page of rows.
PAGE_SIZE == 100

DbIcaos == {"3C5EF2", "4CA2B1"}
DbFlights == {"", "KLM123"}

\* position_to_rows: the aircraft row and the position row of a snapshot
\* taken at ts.
position_to_rows(position, ts) ==
    [aircraft |-> [icao           |-> position.icao,
                   first_seen_utc |-> ts,
                   last_seen_utc  |-> ts,
                   last_flight    |-> OrNone(position.flight)],
     position |-> [icao |-> position.icao, ts |-> ts]]

\* COALESCE(a, b)
COALESCE(a, b) == IF a # None THEN a ELSE b

\* INSERT INTO aircraft ... ON CONFLICT (icao) DO UPDATE SET last_seen_utc =
\* EXCLUDED.last_seen_utc, last_flight = COALESCE(EXCLUDED.last_flight,
\* aircraft.last_flight), for one row.
Upsert(table, row) ==
    IF row.icao \in DOMAIN table
    THEN [table EXCEPT ![row.icao] =
             [@ EXCEPT !.last_seen_utc = row.last_seen_utc,
                       !.last_flight = COALESCE(row.last_flight, @)]]
    ELSE [i \in DOMAIN table \cup {row.icao} |->
             IF i = row.icao
             THEN [first_seen_utc |-> row.first_seen_utc,
                   last_seen_utc  |-> row.last_seen_utc,
                   last_flight    |-> row.last_flight]
             ELSE table[i]]

RECURSIVE UpsertAll(_, _)
UpsertAll(table, rows) ==
    IF rows = <<>> THEN table
    ELSE UpsertAll(Upsert(table, Head(rows)), Tail(rows))

\* The rows proposed by one INSERT ... ON CONFLICT DO UPDATE statement hold
\* the same icao twice: PostgreSQL rejects the statement ("ON CONFLICT DO
\* UPDATE command cannot affect row a second time").
CardinalityViolation(rows) ==
    \E i \in 1..Len(rows) : \E j \in 1..Len(rows) :
        /\ i < j
        /\ (i - 1) \div PAGE_SIZE = (j - 1) \div PAGE_SIZE
        /\ rows[i].icao = rows[j].icao

AircraftRows(rows) == [i \in 1..Len(rows) |-> rows[i].aircraft]
PositionRows(rows) == [i \in 1..Len(rows) |-> rows[i].position]

DbResult(raised, a, p) == [raised |-> raised, aircraft |-> a, positions |-> p]

\* flush_batches on the tables db: nothing to do for empty lists; else one
\* transaction ("with conn") with the upsert of all aircraft rows in one
\* statement and the insert of all position rows.
flush_batches(db, aircraft_rows, position_rows, db_up) ==
    IF aircraft_rows = <<>> /\ position_rows = <<>>
    THEN DbResult(FALSE, db.aircraft, db.positions)
    ELSE IF ~db_up \/ CardinalityViolation(aircraft_rows)
    THEN DbResult(TRUE, db.aircraft, db.positions)
    ELSE DbResult(FALSE, UpsertAll(db.aircraft, aircraft_rows),
                  db.positions \o position_rows)

\* ingest: the rows of the payload that have a position, stamped with
\* their own ts or with now; cur.executemany runs the upsert once per row.
IngestRows(payload, now) ==
    LET kept == SelectSeq(payload, LAMBDA pos : pos.has_position) IN
    [i \in 1..Len(kept) |->
        LET ts == IF kept[i].ts # None THEN kept[i].ts[1] ELSE now IN
        [aircraft |-> [icao           |-> kept[i].icao,
                       first_seen_utc |-> ts,
                       last_seen_utc  |-> ts,
                       last_flight    |-> kept[i].flight],
         position |-> [icao |-> kept[i].icao, ts |-> ts]]]

ingest(db, payload, now, db_up) ==
    LET rows == IngestRows(payload, now) IN
    IF rows = <<>> THEN DbResult(FALSE, db.aircraft, db.positions)
    ELSE IF ~db_up THEN DbResult(TRUE, db.aircraft, db.positions)
    ELSE DbResult(FALSE, UpsertAll(db.aircraft, AircraftRows(rows)),
                  db.positions \o PositionRows(rows))

Db == [aircraft |-> aircraft_table, positions |-> positions_table]

InitDb ==
    /\ line = LineEmpty
    /\ parsed = Pending
    /\ st = <<>>
    /\ fed = <<>>
    /\ out = Pending
    /\ lookups = <<>>
    /\ kind = "db"
    /\ lookup_aircraft_info = FALSE
    /\ batch_size = MaxRows
    /\ pc = "Streaming"
    /\ open_feeds = 1
    /\ shutdown_steps = <<>>
    /\ exitBy = ""
    /\ finalFlush = ""
    /\ batch = <<>>
    /\ record_count = 0
    /\ last_log = 0
    /\ flushed = <<>>
    /\ appended = {}
    /\ published = <<>>
    /\ snapshots = <<>>
    /\ wall_clock = 0
    /\ current_positions = <<>>
    /\ current_csv = <<>>
    /\ current_written = None
    /\ last_current_update = 0
    /\ aircraft_table = <<>>
    /\ positions_table = <<>>
    /\ db_last = NoWrite
    /\ publisher = NewPublisher
    /\ nc = NewClient
    /\ tasks = [t \in Tasks |-> Idle]
    /\ calls = 0
    /\ nread = 0
    /\ delay = 0

dbIdle ==
    <<trackerVars, kind, batch_size, pc, open_feeds, shutdown_steps, exitBy,
      finalFlush, record_count, last_log, flushed, appended, published,
      snapshots, csvVars, natsVars, nread, delay>>

\* The database writer buffers the rows of a snapshot.
AppendRows(icao, flight) ==
    /\ Len(batch) < MaxRows
    /\ batch' = Append(batch, position_to_rows([icao |-> icao,
                                                flight |-> flight],
                                               wall_clock))
    /\ UNCHANGED <<dbIdle, wall_clock, dbVars>>

\* The database writer calls flush_batches: at a batch boundary, where the
\* lists are cleared after it (clear), or in a handler, where they are not.
FlushBatches(db_up, clear) ==
    /\ db_last.calls < MaxDbCalls
    /\ LET res == flush_batches(Db, AircraftRows(batch), PositionRows(batch),
                                db_up)
       IN
       /\ aircraft_table' = res.aircraft
       /\ positions_table' = res.positions
       /\ db_last' = [calls |-> db_last.calls + 1, by |-> "flush_batches",
                      rows |-> batch, db_up |-> db_up]
       /\ batch' = IF clear /\ ~res.raised THEN <<>> ELSE batch
    /\ UNCHANGED <<dbIdle, wall_clock>>

\* The payloads of /api/ingest: a record with its own ts and a flight; the
\* same followed by a later record of that aircraft without ts or flight;
\* a record of another aircraft; a record without a position.
Payloads ==
    LET full  == [icao |-> "3C5EF2", ts |-> Some(0), flight |-> Some("KLM123"),
                  has_position |-> TRUE]
        bare  == [icao |-> "3C5EF2", ts |-> None, flight |-> None,
                  has_position |-> TRUE]
        other == [icao |-> "4CA2B1", ts |-> None, flight |-> None,
                  has_position |-> TRUE]
        blind == [icao |-> "4CA2B1", ts |-> None, flight |-> None,
                  has_position |-> FALSE]
    IN  {<<full>>, <<full, bare>>, <<other>>, <<blind>>}

\* A sender posts a payload to /api/ingest.
Ingest(payload, db_up) ==
    /\ db_last.calls < MaxDbCalls
    /\ LET res == ingest(Db, payload, wall_clock, db_up) IN
       /\ aircraft_table' = res.aircraft
       /\ positions_table' = res.positions
       /\ db_last' = [calls |-> db_last.calls + 1, by |-> "ingest",
                      rows |-> IngestRows(payload, wall_clock),
                      db_up |-> db_up]
    /\ UNCHANGED <<dbIdle, wall_clock, batch>>

NextDb ==
    \/ \E icao \in DbIcaos, flight \in DbFlights : AppendRows(icao, flight)
    \/ \E db_up \in BOOLEAN, clear \in BOOLEAN : FlushBatches(db_up, clear)
    \/ \E payload \in Payloads, db_up \in BOOLEAN : Ingest(payload, db_up)
    \/ Pass

SpecDb == InitDb /\ [][NextDb]_vars


(***************************************************************************)
(* NatsPublisher used by several asyncio tasks. A task runs without        *)
(* interruption up to an await that suspends it: the wait for the lock,    *)
(* the client's connect, flush and drain.                                  *)
(***************************************************************************)

MaxCalls == 4

\* asyncio.Lock.acquire without suspension: the lock is free and nobody
\* waits for it.
LockFree(p) == p._lock.holder = None /\ p._lock._waiters = <<>>

Acquired(p, t) == [p EXCEPT !._lock.holder = Some(t)]

Enqueued(p, t) == [p EXCEPT !._lock._waiters = Append(@, t)]

\* asyncio.Lock.release: the first waiter, if any, is woken up and will
\* take the lock when it runs.
Released(p) == [p EXCEPT !._lock.holder = None]

\* A close is between its flush and the end of its drain.
CloseInProgress == \E t \in Tasks : tasks[t].at \in {"flush", "drain"}

\* self._nc.publish(self.subject, payload): the client takes the message,
\* or, once it is draining, may refuse it (ConnectionDrainingError).
NcPublish(c, t, taken) ==
    [c EXCEPT !.handed =
         Append(@, [by      |-> t,
                    status  |-> c.status,
                    closing |-> CloseInProgress,
                    taken   |-> taken])]

\* The rest of publish after "if not self._connected: await self.connect()".
PublishRest(t, c, taken) ==
    /\ taken \in (IF c.status = "connected" THEN {TRUE}
                  ELSE IF c.status = "draining" THEN BOOLEAN
                  ELSE {FALSE})
    /\ nc' = NcPublish(c, t, taken)
    /\ tasks' = [tasks EXCEPT ![t] = Idle]

\* connect that does not look at _connected.
ConnectLocked_unchecked(t, p, then, taken) ==
    /\ taken = TRUE
    /\ publisher' = p
    /\ nc' = [nc EXCEPT !.connect_calls = @ + 1, !.connecting = @ + 1]
    /\ tasks' = [tasks EXCEPT ![t] = [at |-> "nc_connect", then |-> then]]

\* connect from "async with self._lock" on, the lock being taken by t: a
\* connected publisher returns at once, else the client's connect is
\* called and the task is suspended in it.
ConnectLocked(t, p, then, taken) ==
    IF p._connected
    THEN /\ publisher' = Released(p)
         /\ IF then = "publish" THEN PublishRest(t, nc, taken)
            ELSE /\ taken = TRUE
                 /\ nc' = nc
                 /\ tasks' = [tasks EXCEPT ![t] = Idle]
    ELSE /\ taken = TRUE
         /\ publisher' = p
         /\ nc' = [nc EXCEPT !.connect_calls = @ + 1, !.connecting = @ + 1]
         /\ tasks' = [tasks EXCEPT ![t] = [at |-> "nc_connect", then |-> then]]

\* close from "async with self._lock" on: nothing for a publisher that is
\* not connected, else the client's flush is awaited.
CloseLocked(t, p) ==
    IF ~p._connected
    THEN /\ publisher' = Released(p)
         /\ nc' = nc
         /\ tasks' = [tasks EXCEPT ![t] = Idle]
    ELSE /\ publisher' = p
         /\ nc' = nc
         /\ tasks' = [tasks EXCEPT ![t] = [at |-> "flush", then |-> ""]]

notPub ==
    <<trackerVars, kind, batch_size, pc, open_feeds, shutdown_steps, exitBy,
      finalFlush, batch, record_count, last_log, flushed, appended, published,
      snapshots, wall_clock, csvVars, dbVars, nread, delay>>

Budget == calls < MaxCalls /\ calls' = calls + 1

\* A task calls connect().
CallConnect(t) ==
    /\ tasks[t] = Idle
    /\ Budget
    /\ UNCHANGED notPub
    /\ IF LockFree(publisher)
       THEN ConnectLocked(t, Acquired(publisher, t), "", TRUE)
       ELSE /\ publisher' = Enqueued(publisher, t)
            /\ nc' = nc
            /\ tasks' = [tasks EXCEPT ![t] = [at |-> "wait_connect",
                                              then |-> ""]]

\* A task calls publish(event).
CallPublish(t, taken) ==
    /\ tasks[t] = Idle
    /\ Budget
    /\ UNCHANGED notPub
    /\ IF publisher._connected
       THEN /\ publisher' = publisher
            /\ PublishRest(t, nc, taken)
       ELSE IF LockFree(publisher)
       THEN ConnectLocked(t, Acquired(publisher, t), "publish", taken)
       ELSE /\ taken = TRUE
            /\ publisher' = Enqueued(publisher, t)
            /\ nc' = nc
            /\ tasks' = [tasks EXCEPT ![t] = [at |-> "wait_connect",
                                              then |-> "publish"]]

\* A task calls close().
CallClose(t) ==
    /\ tasks[t] = Idle
    /\ Budget
    /\ UNCHANGED notPub
    /\ IF LockFree(publisher)
       THEN CloseLocked(t, Acquired(publisher, t))
       ELSE /\ publisher' = Enqueued(publisher, t)
            /\ nc' = nc
            /\ tasks' = [tasks EXCEPT ![t] = [at |-> "wait_close",
                                              then |-> ""]]

\* The first waiter of the released lock runs and takes it.
LockAcquired(t, taken) ==
    /\ publisher._lock.holder = None
    /\ publisher._lock._waiters # <<>>
    /\ Head(publisher._lock._waiters) = t
    /\ LET p == Acquired([publisher EXCEPT !._lock._waiters = Tail(@)], t) IN
       IF tasks[t].at = "wait_close"
       THEN taken = TRUE /\ CloseLocked(t, p)
       ELSE ConnectLocked(t, p, tasks[t].then, taken)
    /\ UNCHANGED <<calls, notPub>>

\* The client's connect returns (ok) or raises: the lock is released, and
\* a publish goes on to hand its message to the client.
NcConnectReturns(t, ok, taken) ==
    /\ tasks[t].at = "nc_connect"
    /\ IF ok
       THEN /\ publisher' = Released([publisher EXCEPT !._connected = TRUE])
            /\ LET c == [nc EXCEPT !.status = "connected",
                                   !.connecting = @ - 1,
                                   !.connected = @ + 1]
               IN  IF tasks[t].then = "publish" THEN PublishRest(t, c, taken)
                   ELSE /\ taken = TRUE
                        /\ nc' = c
                        /\ tasks' = [tasks EXCEPT ![t] = Idle]
       ELSE /\ taken = TRUE
            /\ publisher' = Released(publisher)
            /\ nc' = [nc EXCEPT !.connecting = @ - 1]
            /\ tasks' = [tasks EXCEPT ![t] = Idle]
    /\ UNCHANGED <<calls, notPub>>

\* The client's flush returns: close goes on to drain.
NcFlushReturns(t) ==
    /\ tasks[t].at = "flush"
    /\ nc' = [nc EXCEPT !.status = "draining"]
    /\ tasks' = [tasks EXCEPT ![t] = [at |-> "drain", then |-> ""]]
    /\ UNCHANGED <<publisher, calls, notPub>>

\* The client's drain returns: the publisher is not connected any more.
NcDrainReturns(t) ==
    /\ tasks[t].at = "drain"
    /\ publisher' = Released([publisher EXCEPT !._connected = FALSE])
    /\ nc' = [nc EXCEPT !.status = "closed", !.connect_calls = 0,
                        !.connected = 0, !.closes = @ + 1]
    /\ tasks' = [tasks EXCEPT ![t] = Idle]
    /\ UNCHANGED <<calls, notPub>>

\* publisher = NatsPublisher(); no task has called it yet.
InitPub == Init

NextPub ==
    \/ \E t \in Tasks : CallConnect(t)
    \/ \E t \in Tasks, taken \in BOOLEAN : CallPublish(t, taken)
    \/ \E t \in Tasks : CallClose(t)
    \/ \E t \in Tasks, taken \in BOOLEAN : LockAcquired(t, taken)
    \/ \E t \in Tasks, ok \in BOOLEAN, taken \in BOOLEAN :
          NcConnectReturns(t, ok, taken)
    \/ \E t \in Tasks : NcFlushReturns(t)
    \/ \E t \in Tasks : NcDrainReturns(t)

SpecPub == InitPub /\ [][NextPub]_vars

(***************************************************************************)
(* Properties of the supervisors (SpecSup)                                 *)
(***************************************************************************)

\* The sink accepted a batch that holds the snapshot e.
Delivered(e) ==
    \E j \in 1..Len(flushed) : \E k \in 1..Len(flushed[j]) : flushed[j][k] = e

\* C3: whenever the supervisor leaves Streaming without a shutdown request
\* (I/O error or end-of-stream) it enters Backoff with the full
\* RECONNECT_DELAY ahead, and it reaches the next connection attempt only
\* from Backoff with the delay elapsed; it never goes from Streaming to a
\* connection attempt directly.
C3_BackoffBeforeReconnect ==
    [][/\ (pc = "Streaming" /\ pc' \notin {"Streaming", "Exited"}) =>
              (pc' = "Backoff" /\ delay' = RECONNECT_DELAY)
       /\ (pc \notin {"Starting", "Connecting"} /\ pc' = "Connecting") =>
              (pc = "Backoff" /\ delay = 0)]_vars

\* C4: a failed flush, also one whose retry fails as well, never ends the
\* supervisor: it goes on to the reconnection delay and the feed.
C4_SinkFailureNeverTerminates ==
    kind \in Batching => ~(pc = "Exited" /\ exitBy = "sink_error")

\* C5: when the process ends on a shutdown signal, in whichever state the
\* signal arrived, every snapshot still buffered has been flushed (unless
\* the sink refused the final flush).
C5_ShutdownFlushesBuffer ==
    (kind \in Batching /\ pc = "Exited" /\ exitBy = "shutdown"
     /\ finalFlush # "failed")
        => \A i \in 1..Len(batch) : Delivered(batch[i])

\* C6: at-least-once: when the process has ended by graceful shutdown and
\* the sink did not refuse the final flush, every snapshot that was ever
\* appended to a batch is in some flush the sink accepted.
C6_AtLeastOnce ==
    (kind \in Batching /\ pc = "Exited" /\ exitBy = "shutdown"
     /\ finalFlush # "failed")
        => \A e \in appended : Delivered(e)

Position_of(steps, what) ==
    {i \in 1..Len(steps) : steps[i] = what}

\* C17: when the process ends on a shutdown signal, the shutdown path
\* flushes what is buffered and not yet with the sink, and only then closes
\* the feed connection: the flush is never skipped, and the connection is
\* never closed before it.
C17_ShutdownOrder ==
    (kind \in Batching /\ pc = "Exited" /\ exitBy = "shutdown") =>
        /\ (\E i \in 1..Len(batch) : ~Delivered(batch[i]))
               => Position_of(shutdown_steps, "flush") # {}
        /\ \A i \in Position_of(shutdown_steps, "close") :
           \A j \in Position_of(shutdown_steps, "flush") : j < i

\* C18: the supervisor ends only on a shutdown signal, or on a
\* configuration error found at startup before any connection to the feed
\* was attempted; a connect failure, a dropped connection, an undecodable
\* line or a sink failure never ends it.
C18_EndsOnlyOnShutdownOrConfigError ==
    pc = "Exited" =>
        \/ exitBy = "shutdown"
        \/ exitBy = "config_error" /\ nread = 0 /\ open_feeds = 0

\* The snapshots the sink accepted, in the order it was handed them.
RECURSIVE Handed(_)
Handed(batches) ==
    IF batches = <<>> THEN <<>>
    ELSE Head(batches) \o Handed(Tail(batches))

SignalOccurred == record_count > 0 /\ last_log = record_count

\* C20: a batching sink is flushed when the buffered snapshots reach
\* batch_size and when the periodic signal occurs, whichever comes first:
\* the buffer never stays at batch_size, and it is empty after the signal.
C20_FlushAtThresholdOrSignal ==
    kind \in Batching =>
        /\ Len(batch) < batch_size
        /\ SignalOccurred => batch = <<>>

\* The message the sender publishes for the snapshot that line n produced.
EventOf(i) == published[i].payload

\* C21: in NATS mode every update that returned a snapshot has exactly one
\* message on the fixed subject, in the order of the updates and whatever
\* has_full was, and nothing else is published.
C21_OneEventPerSnapshot ==
    kind = "nats" =>
        /\ Len(published) = Len(snapshots)
        /\ \A i \in 1..Len(published) :
              /\ published[i].subject = DEFAULT_SUBJECT
              /\ EventOf(i).tsUnixMs = ClockMs(snapshots[i].n)
              /\ EventOf(i).aircraft.icaoHex = snapshots[i].icao

\* The last snapshot of the aircraft among the first upto lines, as an index
\* into snapshots; 0 when there is none.
LatestSnapshot(icao, upto) ==
    LET mine == {i \in 1..Len(snapshots) :
                    snapshots[i].icao = icao /\ snapshots[i].n <= upto}
    IN  IF mine = {} THEN 0
        ELSE CHOOSE i \in mine : \A j \in mine : j <= i

\* C24: whenever the current-positions file has been written, each of its
\* rows is the most recent snapshot of its aircraft at the time of the
\* write and is no older than max_age seconds then; the rows are in
\* ascending ICAO order with one row per aircraft; an aircraft whose most
\* recent snapshot is older is left out, and no other one is.
C24_CurrentPositionsFresh ==
    (kind = "csv" /\ current_written # None) =>
        LET w == current_written[1] IN
        /\ \A i \in 1..Len(current_csv) :
              LET row == current_csv[i]
                  k   == LatestSnapshot(row.icao, w.n)
              IN
              /\ fromisoformat(row.timestamp_utc) # None
              /\ fromisoformat(row.timestamp_utc)[1] >= w.at - MaxAge
              /\ k # 0
              /\ snapshots[k].n = row.n
              /\ snapshots[k].at = fromisoformat(row.timestamp_utc)[1]
        /\ \A i \in 1..Len(current_csv) : \A j \in 1..Len(current_csv) :
              i < j => IcaoRank(current_csv[i].icao) < IcaoRank(current_csv[j].icao)
        /\ \A k \in 1..Len(snapshots) :
              (k = LatestSnapshot(snapshots[k].icao, w.n)
               /\ snapshots[k].at >= w.at - MaxAge)
                 => \E i \in 1..Len(current_csv) :
                       current_csv[i].n = snapshots[k].n

\* The file was written with two aircraft known, the one seen first in the
\* feed and last in ICAO order being too old: only the other one is in it.
C24_Witness ==
    /\ kind = "csv"
    /\ current_written # None
    /\ DOMAIN current_positions = {"3C5EF2", "4CA2B1"}
    /\ snapshots[1].icao = "4CA2B1"
    /\ Len(current_csv) = 1
    /\ current_csv[1].icao = "3C5EF2"
    /\ fromisoformat(current_positions["4CA2B1"].timestamp_utc)[1]
          < current_written[1].at - MaxAge

\* The file was written with both aircraft fresh: two rows, 3C5EF2 first
\* although 4CA2B1 was seen first.
C24_BothRows ==
    /\ kind = "csv"
    /\ current_written # None
    /\ snapshots[1].icao = "4CA2B1"
    /\ Len(current_csv) = 2
    /\ current_csv[1].icao = "3C5EF2"

(***************************************************************************)
(* Properties of the database sink (SpecDb)                                *)
(***************************************************************************)

\* The rows of one write that belong to the aircraft, as indexes.
RowsOf(rows, icao) == {i \in 1..Len(rows) : rows[i].aircraft.icao = icao}

First(S) == CHOOSE i \in S : \A j \in S : i <= j
Last(S) == CHOOSE i \in S : \A j \in S : j <= i

\* What a write of the rows does to the tables when every record is
\* upserted: one more position row per record, in order; for each aircraft
\* of the write, first_seen_utc of its first record unless it was known,
\* last_seen_utc of its last record, a known last_flight never lost; the
\* other aircraft untouched.
UpsertedOnEveryRecord(rows) ==
    /\ positions_table' = positions_table \o PositionRows(rows)
    /\ DOMAIN aircraft_table' =
           DOMAIN aircraft_table \cup {rows[i].aircraft.icao : i \in 1..Len(rows)}
    /\ \A icao \in DOMAIN aircraft_table' :
          LET mine == RowsOf(rows, icao) IN
          IF mine = {} THEN aircraft_table'[icao] = aircraft_table[icao]
          ELSE /\ aircraft_table'[icao].first_seen_utc =
                     IF icao \in DOMAIN aircraft_table
                     THEN aircraft_table[icao].first_seen_utc
                     ELSE rows[First(mine)].aircraft.first_seen_utc
               /\ aircraft_table'[icao].last_seen_utc =
                     rows[Last(mine)].aircraft.last_seen_utc
               /\ (\/ \E i \in mine : rows[i].aircraft.last_flight # None
                   \/ /\ icao \in DOMAIN aircraft_table
                      /\ aircraft_table[icao].last_flight # None)
                     => aircraft_table'[icao].last_flight # None

\* No row of the tables is removed, and no position row and no
\* first_seen_utc is changed.
NothingLost ==
    /\ Len(positions_table') >= Len(positions_table)
    /\ SubSeq(positions_table', 1, Len(positions_table)) = positions_table
    /\ \A icao \in DOMAIN aircraft_table :
          /\ icao \in DOMAIN aircraft_table'
          /\ aircraft_table'[icao].first_seen_utc =
                 aircraft_table[icao].first_seen_utc
          /\ aircraft_table[icao].last_flight # None
                 => aircraft_table'[icao].last_flight # None

\* C25: every database write (flush_batches of the writer, ingest of the
\* API) made while the database is up upserts the aircraft row of every
\* buffered record (first_seen_utc of the first record ever written for the
\* icao and never changed, last_seen_utc of the most recent one,
\* last_flight never back to null) and adds one position row per buffered
\* snapshot; no write changes or removes a position row.
C25_UpsertAndAppendOnly ==
    [][/\ NothingLost
       /\ (db_last'.calls # db_last.calls /\ db_last'.db_up)
              => UpsertedOnEveryRecord(db_last'.rows)]_vars

\* The same for the writes whose rows are of different aircraft and for
\* the writes of ingest.
C25_DistinctAircraftOrIngest ==
    [][/\ NothingLost
       /\ (/\ db_last'.calls # db_last.calls
           /\ db_last'.db_up
           /\ \/ db_last'.by = "ingest"
              \/ ~CardinalityViolation(AircraftRows(db_last'.rows)))
              => UpsertedOnEveryRecord(db_last'.rows)]_vars

\* flush_batches was called, the database being up, with two records of
\* one aircraft in the lists, and the tables are still empty.
C25_BatchRejected ==
    /\ db_last.by = "flush_batches"
    /\ db_last.db_up
    /\ Len(db_last.rows) = 2
    /\ db_last.rows[1].aircraft.icao = db_last.rows[2].aircraft.icao
    /\ db_last.rows[1].aircraft.last_seen_utc
           < db_last.rows[2].aircraft.last_seen_utc
    /\ positions_table = <<>>
    /\ aircraft_table = <<>>

\* ingest wrote two records of one aircraft, the second without a flight:
\* both position rows are there, the aircraft row has the first record's
\* first_seen_utc and flight and the second record's last_seen_utc.
C25_IngestUpserts ==
    /\ db_last.by = "ingest"
    /\ db_last.calls = 1
    /\ Len(positions_table) = 2
    /\ DOMAIN aircraft_table = {"3C5EF2"}
    /\ aircraft_table["3C5EF2"].first_seen_utc = 0
    /\ aircraft_table["3C5EF2"].last_seen_utc = 2

\* C26: in the database writer no snapshot is in two of the flushes the
\* database accepted: a row that was flushed is not flushed again, also
\* after the handler of a dropped connection flushed and the supervisor
\* reconnected.
C26_FlushedRowsNotFlushedAgain ==
    kind = "db" =>
        LET h == Handed(flushed) IN
        \A i \in 1..Len(h) : \A j \in 1..Len(h) : i < j => h[i] # h[j]

\* C27: the buffer of a batching supervisor never holds more than
\* batch_size entries, and while the supervisor is reading, between two
\* lines, it holds fewer than batch_size, also after failed flushes and
\* reconnects.
C27_BufferBelowBatchSize ==
    kind \in Batching =>
        /\ Len(batch) <= batch_size
        /\ pc = "Streaming" => Len(batch) < batch_size

(***************************************************************************)
(* Properties of NatsPublisher (SpecPub)                                   *)
(***************************************************************************)

\* C28: the client's connect is invoked at most once between construction
\* (or a completed close) and the next close, whatever the interleaving
\* of connect() and publish() calls.
C28_ClientConnectInvokedOnce == nc.connect_calls <= 1

\* C28, with invocations that raise: between construction (or a completed
\* close) and the next close at most one invocation of the client's
\* connect is in progress or has succeeded, and it is invoked only by the
\* holder of the lock on a publisher that is not connected; connect() on a
\* connected publisher does not call the client, and close() on a publisher
\* that is not connected does not flush or drain it.
C28_OneConnectionAtATime ==
    /\ [](nc.connecting + nc.connected <= 1)
    /\ [][/\ nc'.connect_calls > nc.connect_calls =>
                 /\ ~publisher._connected
                 /\ nc.connecting = 0
                 /\ publisher'._lock.holder # None
          /\ (\E t \in Tasks : tasks[t].at # "flush" /\ tasks'[t].at = "flush")
                 => publisher._connected]_vars

\* A first invocation of the client's connect raised, a second one
\* succeeded and a message went out, while another task called as well.
C28_Witness ==
    /\ nc.connect_calls = 2
    /\ nc.connected = 1
    /\ nc.connecting = 0
    /\ publisher._connected
    /\ Len(nc.handed) = 1
    /\ calls >= 3

\* C29: no message is handed to the client while a close is flushing or
\* draining it.
C29_NoPublishDuringClose ==
    \A i \in 1..Len(nc.handed) : ~nc.handed[i].closing

\* A message was handed to the client, and taken by it, while close was
\* waiting for the client's flush.
C29_HandedDuringFlush ==
    \E i \in 1..Len(nc.handed) :
        /\ nc.handed[i].closing
        /\ nc.handed[i].status = "connected"
        /\ nc.handed[i].taken

\* C30: a supervisor has at most one feed connection open, and none when
\* it makes a connection attempt or has ended: the connection it was
\* reading is closed before.
C30_OneFeedConnection ==
    /\ open_feeds <= 1
    /\ pc \in {"Connecting", "Exited"} => open_feeds = 0

\* The same for the async sender alone (HTTP and NATS modes).
C30_AsyncSenderClosesFeed ==
    kind \in Async => C30_OneFeedConnection

====
